---- MODULE Spec2Model ----
(***************************************************************************)
(* State-machine model of the document ingestion pipeline of the           *)
(* hero-vida-insight-engine repository:                                    *)
(*   supabase/functions/process-file/index.ts  (serve handler, chunkText)  *)
(* A string is modelled as a sequence of one-character strings.            *)
(***************************************************************************)
EXTENDS Integers, Sequences, FiniteSets, TLC

(***************************************************************************)
(* Bounds of the model.                                                    *)
(***************************************************************************)
\* longest input text (in characters) given to chunkText on its own
MaxLen == 4
\* largest maxTokens given to chunkText on its own
MaxM == 3
\* the maxTokens the serve handler passes to chunkText.  The handler passes
\* 500 (index.ts line 63); the model scales it down so that a document of
\* several chunks stays a few words long.
ChunkSize == 2
\* dimensionality of the embeddings column, vector(768)
EmbeddingDim == 768
\* most documents in the store a question is asked against
MaxDocs == 4
\* most files in one FileList handed to processFiles
MaxBatch == 2
\* most messages the user sends in the chat
MaxSends == 2
\* longest text typed into the chat input
MaxInput == 2
\* most remounts of the configuration panel
MaxMounts == 2
\* match_threshold: 0.7, in hundredths
MatchThreshold == 70
\* match_count: 5
MatchCount == 5
\* most embedding rows in the store a question is asked against: one more
\* than match_documents may return
MaxRows == MatchCount + 1
\* .limit(3) of the fallback query
FallbackLimit == 3

(***************************************************************************)
(* Characters.  /\s/ matches the blank and the newline; letters do not.    *)
(***************************************************************************)
Letters == {"a", "b"}
Whitespace == {" ", "\n"}
Chars == Letters \cup Whitespace

IsSpace(c) == c \in Whitespace

\* all sequences over S of length at most n
SeqsUpTo(S, n) == UNION {[1..k -> S] : k \in 0..n}

(***************************************************************************)
(* text.split(/\s+/): every maximal run of whitespace is one separator.    *)
(* A separator at the start or at the end of the text leaves an empty      *)
(* string before or after it, and the empty text splits into [""].         *)
(*   i   : next position of text to read                                   *)
(*   cur : the token collected since the last separator                    *)
(*   out : the tokens already closed                                       *)
(***************************************************************************)
RECURSIVE SplitScan(_, _, _, _)
SplitScan(str, i, cur, out) ==
    IF i > Len(str) THEN Append(out, cur)
    ELSE IF IsSpace(str[i])
         THEN IF i > 1 /\ IsSpace(str[i - 1])
              THEN SplitScan(str, i + 1, cur, out)
              ELSE SplitScan(str, i + 1, <<>>, Append(out, cur))
         ELSE SplitScan(str, i + 1, Append(cur, str[i]), out)

SplitWhitespace(str) == SplitScan(str, 1, <<>>, <<>>)

(***************************************************************************)
(* currentChunk.join(' ')                                                  *)
(***************************************************************************)
RECURSIVE JoinSpace(_)
JoinSpace(ws) ==
    IF Len(ws) = 0 THEN <<>>
    ELSE IF Len(ws) = 1 THEN ws[1]
    ELSE ws[1] \o <<" ">> \o JoinSpace(Tail(ws))

(***************************************************************************)
(* The for-loop of chunkText over words[i..]: push the word, and when the  *)
(* current chunk has reached maxTokens words, close it and start afresh.   *)
(* After the loop a non-empty current chunk is closed as the last chunk.   *)
(***************************************************************************)
RECURSIVE ChunkLoopNoReset(_, _, _, _, _)
ChunkLoopNoReset(words, i, maxTokens, closed, currentChunk) ==
    IF i > Len(words)
    THEN IF Len(currentChunk) > 0
         THEN Append(closed, JoinSpace(currentChunk))
         ELSE closed
    ELSE LET pushed == Append(currentChunk, words[i])
         IN  IF Len(pushed) >= maxTokens
             THEN ChunkLoopNoReset(words, i + 1, maxTokens,
                                   Append(closed, JoinSpace(pushed)), pushed)
             ELSE ChunkLoopNoReset(words, i + 1, maxTokens, closed, pushed)

RECURSIVE ChunkLoop(_, _, _, _, _)
ChunkLoop(words, i, maxTokens, closed, currentChunk) ==
    IF i > Len(words)
    THEN IF Len(currentChunk) > 0
         THEN Append(closed, JoinSpace(currentChunk))
         ELSE closed
    ELSE LET pushed == Append(currentChunk, words[i])
         IN  IF Len(pushed) >= maxTokens
             THEN ChunkLoop(words, i + 1, maxTokens,
                            Append(closed, JoinSpace(pushed)), <<>>)
             ELSE ChunkLoop(words, i + 1, maxTokens, closed, pushed)

chunkText(str, maxTokens) ==
    ChunkLoop(SplitWhitespace(str), 1, maxTokens, <<>>, <<>>)

(***************************************************************************)
(* The world around the serve handler.                                     *)
(***************************************************************************)
\* concurrent invocations of the process-file function
Runs == {"r1", "r2"}

TextCsv == "text/csv"
MsExcel == "application/vnd.ms-excel"
Pdf == "application/pdf"
Xlsx == "application/vnd.openxmlformats-officedocument.spreadsheetml.sheet"

\* Blob.text(): the bytes decoded as UTF-8.  ASCII bytes decode to their
\* character, a byte that is no valid UTF-8 decodes to U+FFFD.
Lower == <<"a", "b", "c", "d", "e", "f", "g", "h", "i", "j", "k", "l", "m",
           "n", "o", "p", "q", "r", "s", "t", "u", "v", "w", "x", "y", "z">>

Replacement == "U+FFFD"

CharOf(b) ==
    IF b = 32 THEN " "
    ELSE IF b = 10 THEN "\n"
    ELSE IF b = 37 THEN "%"
    ELSE IF b \in 97..122 THEN Lower[b - 96]
    ELSE Replacement

BlobText(bytes) == [k \in 1..Len(bytes) |-> CharOf(bytes[k])]

\* the bytes of n one-letter words "a", "b", "c", ... separated by one blank
RECURSIVE WordBytes(_, _)
WordBytes(k, n) ==
    IF k > n THEN <<>>
    ELSE IF k = n THEN <<96 + k>>
    ELSE <<96 + k, 32>> \o WordBytes(k + 1, n)

\* The 'documents' storage bucket: object path -> bytes.
\*   u-doc   a text of 2 * ChunkSize + 1 words (three chunks)
\*   u-empty an empty file
\*   u-pad   the text " a" (leading blank)
\*   u-pdf   a PDF: "%" followed by bytes that are not text
\*   u-xlsx  a spreadsheet (a zip archive): bytes that are not text
Storage ==
    [u \in {"u-doc", "u-empty", "u-pad", "u-pdf", "u-xlsx"} |->
        CASE u = "u-doc"   -> WordBytes(1, 2 * ChunkSize + 1)
          [] u = "u-empty" -> <<>>
          [] u = "u-pad"   -> <<32, 97>>
          [] u = "u-pdf"   -> <<37, 226, 97>>
          [] u = "u-xlsx"  -> <<80 + 128, 97>>]

\* the request bodies {fileName, fileUrl, fileType} the handler is given
Requests ==
    { [fileName |-> "doc.csv",   fileUrl |-> "u-doc",   fileType |-> TextCsv],
      [fileName |-> "empty.csv", fileUrl |-> "u-empty", fileType |-> TextCsv],
      [fileName |-> "pad.csv",   fileUrl |-> "u-pad",   fileType |-> MsExcel],
      [fileName |-> "scan.pdf",  fileUrl |-> "u-pdf",   fileType |-> Pdf],
      [fileName |-> "book.xlsx", fileUrl |-> "u-xlsx",  fileType |-> Xlsx],
      [fileName |-> "gone.csv",  fileUrl |-> "u-gone",  fileType |-> TextCsv] }

NoRequest == [fileName |-> "", fileUrl |-> "", fileType |-> ""]

\* lengths of the vectors the embedding API may return
VectorDims == {EmbeddingDim, 3}

\* ways one embedding call fails: fetch throws, the response is not ok,
\* its body is no JSON, or it carries no embedding.values
EmbedFailures == {"fetchThrows", "notOk", "badJson", "noVector"}

NoDocument == [id |-> 0]

NoResponse == [kind |-> "none"]

(***************************************************************************)
(* State.                                                                  *)
(*   ctText, ctMaxTokens : the arguments of a call of chunkText on its own *)
(*   ctChunks            : its return value                                *)
(*   ctPc                : "call" before the call, "returned" after it     *)
(*   apiKey              : GEMINI_API_KEY is set in the environment        *)
(*   documentsTable      : rows of table documents, in creation order      *)
(*   embeddingsTable     : rows of table embeddings, in creation order     *)
(* and of every run r of the serve handler:                                *)
(*   pc[r]         : where the handler stands                              *)
(*   req[r]        : { fileName, fileUrl, fileType }                       *)
(*   fileData[r]   : the downloaded bytes                                  *)
(*   text[r]       : let text                                              *)
(*   document[r]   : const document (the inserted row)                     *)
(*   chunks[r]     : const chunks                                          *)
(*   idx[r]        : position of the for-of loop in chunks                 *)
(*   embeddings[r] : const embeddings (the local array)                    *)
(*   response[r]   : the Response returned                                 *)
(*   calls[r]      : the outbound calls made so far, with their outcome;   *)
(*                   an embedding call is logged when it is issued         *)
(*                   (fetchEmbedding) and when its outcome is known (embed)*)
(***************************************************************************)
VARIABLES ctText, ctMaxTokens, ctChunks, ctPc,
          apiKey, documentsTable, embeddingsTable,
          pc, req, fileData, text, document, chunks, idx, embeddings,
          response, calls,
          qPc, question, questionVector, similarChunks, relevantContext,
          result, qResponse, qCalls,
          upList, upFiles, upValid, upPos, upPc, upCalls,
          chInput, chLoading, chMessages, chPending,
          cfConfig, cfSaved, cfTimer, cfMounts

ctVars == <<ctText, ctMaxTokens, ctChunks, ctPc>>

storeVars == <<documentsTable, embeddingsTable>>

runVars == <<pc, req, fileData, text, document, chunks, idx, embeddings,
             response, calls>>

ingestVars == <<apiKey, documentsTable, embeddingsTable, pc, req, fileData,
                text, document, chunks, idx, embeddings, response, calls>>

qVars == <<qPc, question, questionVector, similarChunks, relevantContext,
           result, qResponse, qCalls>>

\* FileUploader: the FileList handed to processFiles, the files state, the
\* local validFiles (as positions in the FileList), the position of the
\* for-of loop in validFiles, where processFiles stands, and the outbound
\* calls made so far
upVars == <<upList, upFiles, upValid, upPos, upPc, upCalls>>

\* ChatInterface: the input, isLoading and messages states, and the calls
\* of onSendMessage in flight
chVars == <<chInput, chLoading, chMessages, chPending>>

\* ConfigPanel: the config state, the rag-config item of localStorage, the
\* pending timer of the connection test, and the number of remounts
cfVars == <<cfConfig, cfSaved, cfTimer, cfMounts>>

\* the state of the browser components
uiVars == <<upVars, chVars, cfVars>>

vars == <<ctText, ctMaxTokens, ctChunks, ctPc,
          apiKey, documentsTable, embeddingsTable,
          pc, req, fileData, text, document, chunks, idx, embeddings,
          response, calls,
          qPc, question, questionVector, similarChunks, relevantContext,
          result, qResponse, qCalls,
          upList, upFiles, upValid, upPos, upPc, upCalls,
          chInput, chLoading, chMessages, chPending,
          cfConfig, cfSaved, cfTimer, cfMounts>>

(***************************************************************************)
(* chunkText called on its own.                                            *)
(***************************************************************************)
\* chunkText is not being exercised on its own
CtIdle ==
    /\ ctText = <<>>
    /\ ctMaxTokens = 1
    /\ ctChunks = <<>>
    /\ ctPc = "idle"

CtInit ==
    /\ ctText \in SeqsUpTo(Chars, MaxLen)
    /\ ctMaxTokens \in 1..MaxM
    /\ ctChunks = <<>>
    /\ ctPc = "call"

CallChunkText ==
    /\ ctPc = "call"
    /\ ctChunks' = chunkText(ctText, ctMaxTokens)
    /\ ctPc' = "returned"
    /\ UNCHANGED <<ctText, ctMaxTokens>>
    /\ UNCHANGED <<ingestVars, qVars, uiVars>>

(***************************************************************************)
(* The serve handler of process-file, one action per await.                *)
(***************************************************************************)
IngestInit ==
    /\ apiKey \in BOOLEAN
    /\ documentsTable = <<>>
    /\ embeddingsTable = <<>>
    /\ pc = [r \in Runs |-> "start"]
    /\ req = [r \in Runs |-> NoRequest]
    /\ fileData = [r \in Runs |-> <<>>]
    /\ text = [r \in Runs |-> <<>>]
    /\ document = [r \in Runs |-> NoDocument]
    /\ chunks = [r \in Runs |-> <<>>]
    /\ idx = [r \in Runs |-> 0]
    /\ embeddings = [r \in Runs |-> <<>>]
    /\ response = [r \in Runs |-> NoResponse]
    /\ calls = [r \in Runs |-> <<>>]

Call(op, arg, ok) == [op |-> op, arg |-> arg, ok |-> ok]

\* the catch block: { error: error.message } with status 500
ErrorResponse(message) == [kind |-> "error", status |-> 500, error |-> message]

\* req.method === 'OPTIONS': an empty response with the CORS headers
Preflight(r) ==
    /\ pc[r] = "start"
    /\ response' = [response EXCEPT ![r] = [kind |-> "preflight", status |-> 200]]
    /\ pc' = [pc EXCEPT ![r] = "done"]
    /\ UNCHANGED <<ctVars, uiVars, qVars, apiKey, storeVars, req, fileData,
                   text, document, chunks, idx, embeddings, calls>>

\* mutant of BadBody: req.json() is awaited outside the try block, and the
\* rejection leaves the handler as an unhandled fault
BadBodyUnhandled(r) ==
    /\ pc[r] = "start"
    /\ response' = [response EXCEPT ![r] = [kind |-> "fault"]]
    /\ pc' = [pc EXCEPT ![r] = "done"]
    /\ UNCHANGED <<ctVars, uiVars, qVars, apiKey, storeVars, req, fileData,
                   text, document, chunks, idx, embeddings, calls>>

\* await req.json() throws on a body that is no JSON
BadBody(r) ==
    /\ pc[r] = "start"
    /\ response' = [response EXCEPT ![r] = ErrorResponse("Unexpected token")]
    /\ pc' = [pc EXCEPT ![r] = "done"]
    /\ UNCHANGED <<ctVars, uiVars, qVars, apiKey, storeVars, req, fileData,
                   text, document, chunks, idx, embeddings, calls>>

Receive(r, body) ==
    /\ pc[r] = "start"
    /\ req' = [req EXCEPT ![r] = body]
    /\ pc' = [pc EXCEPT ![r] = "download"]
    /\ UNCHANGED <<ctVars, uiVars, qVars, apiKey, storeVars, fileData, text,
                   document, chunks, idx, embeddings, response, calls>>

\* supabase.storage.from('documents').download(fileUrl) returns the object
DownloadOk(r) ==
    /\ pc[r] = "download"
    /\ req[r].fileUrl \in DOMAIN Storage
    /\ fileData' = [fileData EXCEPT ![r] = Storage[req[r].fileUrl]]
    /\ calls' = [calls EXCEPT ![r] = Append(@, Call("download", 0, TRUE))]
    /\ pc' = [pc EXCEPT ![r] = "extract"]
    /\ UNCHANGED <<ctVars, uiVars, qVars, apiKey, storeVars, req, text,
                   document, chunks, idx, embeddings, response>>

\* mutant of DownloadError: the downloadError is not checked and the handler
\* goes on with an empty file
DownloadErrorIgnored(r) ==
    /\ pc[r] = "download"
    /\ calls' = [calls EXCEPT ![r] = Append(@, Call("download", 0, FALSE))]
    /\ fileData' = [fileData EXCEPT ![r] = <<>>]
    /\ pc' = [pc EXCEPT ![r] = "extract"]
    /\ UNCHANGED <<ctVars, uiVars, qVars, apiKey, storeVars, req, text,
                   document, chunks, idx, embeddings, response>>

\* ... or a downloadError: the object is missing, or storage is unavailable
DownloadError(r) ==
    /\ pc[r] = "download"
    /\ calls' = [calls EXCEPT ![r] = Append(@, Call("download", 0, FALSE))]
    /\ response' = [response EXCEPT ![r] = ErrorResponse("Failed to download file")]
    /\ pc' = [pc EXCEPT ![r] = "done"]
    /\ UNCHANGED <<ctVars, uiVars, qVars, apiKey, storeVars, req, fileData,
                   text, document, chunks, idx, embeddings>>

\* the dispatch on fileType: CSV and PDF are decoded as text, any other
\* type leaves text = ''
ExtractedText(fileType, bytes) ==
    IF fileType = TextCsv \/ fileType = MsExcel THEN BlobText(bytes)
    ELSE IF fileType = Pdf THEN BlobText(bytes)
    ELSE <<>>

ExtractText(r) ==
    /\ pc[r] = "extract"
    /\ text' = [text EXCEPT ![r] = ExtractedText(req[r].fileType, fileData[r])]
    /\ pc' = [pc EXCEPT ![r] = "insertDocument"]
    /\ UNCHANGED <<ctVars, uiVars, qVars, apiKey, storeVars, req, fileData,
                   document, chunks, idx, embeddings, response, calls>>

\* the row of table documents the handler inserts
DocumentRow(id, body, content) ==
    [id |-> id, name |-> body.fileName, type |-> body.fileType,
     content |-> content, metadata |-> [originalUrl |-> body.fileUrl]]

\* mutant of InsertDocumentOk: a file name already stored is not inserted
\* again; its row is overwritten and reused
InsertDocumentUpsert(r) ==
    /\ pc[r] = "insertDocument"
    /\ LET same == {k \in 1..Len(documentsTable) :
                       documentsTable[k].name = req[r].fileName}
           id == IF same = {} THEN Len(documentsTable) + 1
                 ELSE CHOOSE k \in same : TRUE
           row == DocumentRow(id, req[r], text[r])
       IN  /\ documentsTable' =
                  IF same = {} THEN Append(documentsTable, row)
                  ELSE [documentsTable EXCEPT ![id] = row]
           /\ document' = [document EXCEPT ![r] = row]
    /\ calls' = [calls EXCEPT ![r] = Append(@, Call("insertDocument", 0, TRUE))]
    /\ pc' = [pc EXCEPT ![r] = "chunk"]
    /\ UNCHANGED <<ctVars, uiVars, qVars, apiKey, embeddingsTable, req,
                   fileData, text, chunks, idx, embeddings, response>>

\* supabase.from('documents').insert(...).select().single() returns the row
InsertDocumentOk(r) ==
    /\ pc[r] = "insertDocument"
    /\ LET row == DocumentRow(Len(documentsTable) + 1, req[r], text[r])
       IN  /\ documentsTable' = Append(documentsTable, row)
           /\ document' = [document EXCEPT ![r] = row]
    /\ calls' = [calls EXCEPT ![r] = Append(@, Call("insertDocument", 0, TRUE))]
    /\ pc' = [pc EXCEPT ![r] = "chunk"]
    /\ UNCHANGED <<ctVars, uiVars, qVars, apiKey, embeddingsTable, req,
                   fileData, text, chunks, idx, embeddings, response>>

\* ... or a docError: nothing is stored
InsertDocumentError(r) ==
    /\ pc[r] = "insertDocument"
    /\ calls' = [calls EXCEPT ![r] = Append(@, Call("insertDocument", 0, FALSE))]
    /\ response' = [response EXCEPT ![r] = ErrorResponse("Failed to store document")]
    /\ pc' = [pc EXCEPT ![r] = "done"]
    /\ UNCHANGED <<ctVars, uiVars, qVars, apiKey, storeVars, req, fileData,
                   text, document, chunks, idx, embeddings>>

\* const chunks = chunkText(text, 500)
ChunkStep(r) ==
    /\ pc[r] = "chunk"
    /\ chunks' = [chunks EXCEPT ![r] = chunkText(text[r], ChunkSize)]
    /\ pc' = [pc EXCEPT ![r] = "apiKey"]
    /\ UNCHANGED <<ctVars, uiVars, qVars, apiKey, storeVars, req, fileData,
                   text, document, idx, embeddings, response, calls>>

\* mutant of AfterChunk: the loop is left after the first chunk
AfterChunkLeavesEarly(r, i) == IF i > 1 THEN "store" ELSE "embed"

\* where the handler stands once the loop has reached position i
AfterChunk(r, i) == IF i > Len(chunks[r]) THEN "store" ELSE "embed"

\* const apiKey = Deno.env.get('GEMINI_API_KEY'); if (!apiKey) throw
ApiKeyPresent(r) ==
    /\ pc[r] = "apiKey"
    /\ apiKey
    /\ idx' = [idx EXCEPT ![r] = 1]
    /\ embeddings' = [embeddings EXCEPT ![r] = <<>>]
    /\ pc' = [pc EXCEPT ![r] = AfterChunk(r, 1)]
    /\ UNCHANGED <<ctVars, uiVars, qVars, apiKey, storeVars, req, fileData,
                   text, document, chunks, response, calls>>

ApiKeyMissing(r) ==
    /\ pc[r] = "apiKey"
    /\ ~apiKey
    /\ response' = [response EXCEPT ![r] = ErrorResponse("Gemini API key not configured")]
    /\ pc' = [pc EXCEPT ![r] = "done"]
    /\ UNCHANGED <<ctVars, uiVars, qVars, apiKey, storeVars, req, fileData,
                   text, document, chunks, idx, embeddings, calls>>

\* mutant of EmbeddingRow: the row references the id after the document's
EmbeddingRowForeignDocument(documentId, chunk, vector, count) ==
    [document_id |-> documentId + 1, content |-> chunk, embedding |-> vector,
     metadata |-> [chunk_index |-> count]]

\* mutant of EmbeddingRow: chunk indices counted from 1
EmbeddingRowIndexFromOne(documentId, chunk, vector, count) ==
    [document_id |-> documentId, content |-> chunk, embedding |-> vector,
     metadata |-> [chunk_index |-> count + 1]]

\* the element pushed on the local embeddings array
EmbeddingRow(documentId, chunk, vector, count) ==
    [document_id |-> documentId, content |-> chunk, embedding |-> vector,
     metadata |-> [chunk_index |-> count]]

\* one iteration of the loop: await fetch(...embedContent...) is issued for
\* the chunk at the loop position, and the handler waits for its outcome
EmbedRequest(r) ==
    /\ pc[r] = "embed"
    /\ calls' = [calls EXCEPT ![r] =
           Append(@, Call("fetchEmbedding", idx[r], TRUE))]
    /\ pc' = [pc EXCEPT ![r] = "awaitEmbed"]
    /\ UNCHANGED <<ctVars, uiVars, qVars, apiKey, storeVars, req, fileData,
                   text, document, chunks, idx, embeddings, response>>

\* one iteration of the loop: the embedding call answers with a vector
\* (modelled by its length), which is pushed
EmbedOk(r, vector) ==
    /\ pc[r] = "awaitEmbed"
    /\ embeddings' = [embeddings EXCEPT ![r] =
           Append(@, EmbeddingRow(document[r].id, chunks[r][idx[r]], vector,
                                  Len(embeddings[r])))]
    /\ calls' = [calls EXCEPT ![r] = Append(@, Call("embed", idx[r], TRUE))]
    /\ idx' = [idx EXCEPT ![r] = @ + 1]
    /\ pc' = [pc EXCEPT ![r] = AfterChunk(r, idx[r] + 1)]
    /\ UNCHANGED <<ctVars, uiVars, qVars, apiKey, storeVars, req, fileData,
                   text, document, chunks, response>>

\* mutant of EmbedSkipped: a failed embedding call is rethrown to the outer
\* catch and ends the run
EmbedAborts(r, failure) ==
    /\ pc[r] = "awaitEmbed"
    /\ failure \in EmbedFailures
    /\ calls' = [calls EXCEPT ![r] = Append(@, Call("embed", idx[r], FALSE))]
    /\ response' = [response EXCEPT ![r] = ErrorResponse(failure)]
    /\ pc' = [pc EXCEPT ![r] = "done"]
    /\ UNCHANGED <<ctVars, uiVars, qVars, apiKey, storeVars, req, fileData,
                   text, document, chunks, idx, embeddings>>

\* mutant of EmbedSkipped: a failed embedding call is tried again
EmbedRetried(r, failure) ==
    /\ pc[r] = "awaitEmbed"
    /\ failure \in EmbedFailures
    /\ calls' = [calls EXCEPT ![r] = Append(@, Call("embed", idx[r], FALSE))]
    /\ pc' = [pc EXCEPT ![r] = "embed"]
    /\ UNCHANGED <<ctVars, uiVars, qVars, apiKey, storeVars, req, fileData,
                   text, document, chunks, idx, embeddings, response>>

\* one iteration of the loop: the embedding call fails; the chunk is skipped
\* (continue, or the inner catch) and the loop goes on
EmbedSkipped(r, failure) ==
    /\ pc[r] = "awaitEmbed"
    /\ failure \in EmbedFailures
    /\ calls' = [calls EXCEPT ![r] = Append(@, Call("embed", idx[r], FALSE))]
    /\ idx' = [idx EXCEPT ![r] = @ + 1]
    /\ pc' = [pc EXCEPT ![r] = AfterChunk(r, idx[r] + 1)]
    /\ UNCHANGED <<ctVars, uiVars, qVars, apiKey, storeVars, req, fileData,
                   text, document, chunks, embeddings, response>>

\* the success response
SuccessResponse(r) ==
    [kind |-> "success", status |-> 200, success |-> TRUE,
     documentId |-> document[r].id,
     chunksProcessed |-> Len(embeddings[r])]

\* the embeddings column is vector(768): the database takes a batch only if
\* every vector has that length
BatchAccepted(batch) ==
    \A k \in 1..Len(batch) : batch[k].embedding = EmbeddingDim

\* mutant of InsertEmbeddingsOk: the batch is a module-level array that all
\* invocations push to, so the insert stores the rows of every run
InsertEmbeddingsOkSharedBatch(r) ==
    /\ pc[r] = "store"
    /\ Len(embeddings[r]) > 0
    /\ BatchAccepted(embeddings[r])
    /\ embeddingsTable' = embeddingsTable \o embeddings["r1"] \o embeddings["r2"]
    /\ calls' = [calls EXCEPT ![r] = Append(@, Call("insertEmbeddings", 0, TRUE))]
    /\ response' = [response EXCEPT ![r] = SuccessResponse(r)]
    /\ pc' = [pc EXCEPT ![r] = "done"]
    /\ UNCHANGED <<ctVars, uiVars, qVars, apiKey, documentsTable, req,
                   fileData, text, document, chunks, idx, embeddings>>

\* if (embeddings.length > 0) insert(embeddings) succeeds; then the success
\* response
InsertEmbeddingsOk(r) ==
    /\ pc[r] = "store"
    /\ Len(embeddings[r]) > 0
    /\ BatchAccepted(embeddings[r])
    /\ embeddingsTable' = embeddingsTable \o embeddings[r]
    /\ calls' = [calls EXCEPT ![r] = Append(@, Call("insertEmbeddings", 0, TRUE))]
    /\ response' = [response EXCEPT ![r] = SuccessResponse(r)]
    /\ pc' = [pc EXCEPT ![r] = "done"]
    /\ UNCHANGED <<ctVars, uiVars, qVars, apiKey, documentsTable, req,
                   fileData, text, document, chunks, idx, embeddings>>

\* ... or an embeddingError: no row of the batch is stored
InsertEmbeddingsError(r) ==
    /\ pc[r] = "store"
    /\ Len(embeddings[r]) > 0
    /\ calls' = [calls EXCEPT ![r] = Append(@, Call("insertEmbeddings", 0, FALSE))]
    /\ response' = [response EXCEPT ![r] = ErrorResponse("Failed to store embeddings")]
    /\ pc' = [pc EXCEPT ![r] = "done"]
    /\ UNCHANGED <<ctVars, uiVars, qVars, apiKey, storeVars, req, fileData,
                   text, document, chunks, idx, embeddings>>

\* mutant of RespondWithoutEmbeddings: an empty batch is reported as an
\* error
RespondWithoutEmbeddingsFails(r) ==
    /\ pc[r] = "store"
    /\ Len(embeddings[r]) = 0
    /\ response' = [response EXCEPT ![r] = ErrorResponse("No embeddings generated")]
    /\ pc' = [pc EXCEPT ![r] = "done"]
    /\ UNCHANGED <<ctVars, uiVars, qVars, apiKey, storeVars, req, fileData,
                   text, document, chunks, idx, embeddings, calls>>

\* embeddings.length = 0: no insert, the success response
RespondWithoutEmbeddings(r) ==
    /\ pc[r] = "store"
    /\ Len(embeddings[r]) = 0
    /\ response' = [response EXCEPT ![r] = SuccessResponse(r)]
    /\ pc' = [pc EXCEPT ![r] = "done"]
    /\ UNCHANGED <<ctVars, uiVars, qVars, apiKey, storeVars, req, fileData,
                   text, document, chunks, idx, embeddings, calls>>

(***************************************************************************)
(* The serve handler of query-rag, one action per await.                   *)
(*   qPc[q]             : where the handler stands                         *)
(*   question[q]        : { question } of the request body                 *)
(*   questionVector[q]  : embedding.values of the question (its length)    *)
(*   similarChunks[q]   : data of the match_documents call                 *)
(*   relevantContext[q] : let relevantContext                              *)
(*   result[q]          : the parsed body of the generation response       *)
(*   qResponse[q]       : the Response returned                            *)
(*   qCalls[q]          : the outbound calls made so far                   *)
(* Texts that are only passed through (question, answer) are plain strings.*)
(***************************************************************************)
\* invocations of the query-rag function
Queries == {"q1"}

Questions == {"range?", "price?"}

\* candidates[0].content.parts[0].text of a generation response:
\* a text, the empty text, or no such field
NoText == [present |-> FALSE]

GeneratedTexts ==
    {NoText, [present |-> TRUE, text |-> ""],
     [present |-> TRUE, text |-> "about 100 km"]}

FixedAnswer == "Sorry, I could not generate a response."

\* ways the generation call fails: fetch throws, the response is not ok, or
\* its body is no JSON
GenerateFailures == {"fetchThrows", "notOk", "badJson"}

\* similarity scores of a stored chunk against a question, in hundredths
Scores == {50, 70, 90}

NoVector == 0

\* array.join('\n\n') of texts
RECURSIVE JoinParagraphs(_)
JoinParagraphs(ts) ==
    IF Len(ts) = 0 THEN <<>>
    ELSE IF Len(ts) = 1 THEN ts[1]
    ELSE ts[1] \o <<"\n", "\n">> \o JoinParagraphs(Tail(ts))

\* The stored procedure match_documents(query_embedding, match_threshold,
\* match_count): the rows whose similarity to the query is at least the
\* threshold, by descending similarity (rows of equal similarity in table
\* order), at most match_count of them.  scores[k] is the similarity of
\* row k; cand are the rows not yet returned.
RECURSIVE TopMatches(_, _, _, _)
TopMatches(rows, scores, cand, n) ==
    IF n = 0 \/ cand = {} THEN <<>>
    ELSE LET best == CHOOSE k \in cand :
                         \A j \in cand :
                             \/ scores[k] > scores[j]
                             \/ scores[k] = scores[j] /\ k <= j
         IN  <<[content |-> rows[best].content, similarity |-> scores[best]]>>
                 \o TopMatches(rows, scores, cand \ {best}, n - 1)

MatchDocuments(rows, scores, threshold, count) ==
    TopMatches(rows, scores,
               {k \in 1..Len(rows) : scores[k] >= threshold}, count)

\* supabase.from('documents').select('content').limit(3): the query names no
\* order, so it returns any min(3, n) rows of the table, in any order
LimitedSelections(n, limit) ==
    LET m == IF n < limit THEN n ELSE limit
    IN  {p \in [1..m -> 1..n] : \A i, j \in 1..m : p[i] = p[j] => i = j}

ContentsOf(rows) == [k \in 1..Len(rows) |-> rows[k].content]

\* mutant of ContextOfChunks: the contents are joined last match first
ContextOfChunksReversed(found) ==
    IF Len(found) > 0
    THEN JoinParagraphs([k \in 1..Len(found) |->
                            found[Len(found) + 1 - k].content])
    ELSE <<>>

\* relevantContext after a successful search
ContextOfChunks(found) ==
    IF Len(found) > 0 THEN JoinParagraphs(ContentsOf(found)) ELSE <<>>

\* relevantContext after the fallback query
ContextOfDocuments(docs) ==
    IF Len(docs) > 0 THEN JoinParagraphs(ContentsOf(docs)) ELSE <<>>

\* the prompt given to the generation call
Prompt(context, asked) == [context |-> context, question |-> asked]

\* mutant of AnswerOf: ?? in place of ||, only a missing text is replaced
AnswerOfNullish(generated) ==
    IF generated.present THEN generated.text ELSE FixedAnswer

\* result.candidates?.[0]?.content?.parts?.[0]?.text || 'Sorry, ...'
AnswerOf(generated) ==
    IF generated.present /\ generated.text # "" THEN generated.text
    ELSE FixedAnswer

AnswerResponse(answer) == [kind |-> "answer", status |-> 200, answer |-> answer]

NoResult == [present |-> FALSE, pending |-> TRUE]

\* A store as earlier ingestion runs have left it: n documents of two words
\* each, "a b", "c d", ..., chunked one word per chunk, and the first rows
\* embedding rows of those documents.
SnapshotContent(j) == BlobText(<<96 + 2 * j - 1, 32, 96 + 2 * j>>)

SnapshotDocuments(n) ==
    [j \in 1..n |->
        DocumentRow(j, [fileName |-> "doc.csv", fileUrl |-> "u-doc",
                        fileType |-> TextCsv], SnapshotContent(j))]

SnapshotEmbeddings(rows) ==
    [k \in 1..rows |->
        LET j == (k + 1) \div 2
            i == (k + 1) % 2
        IN  EmbeddingRow(j, chunkText(SnapshotContent(j), 1)[i + 1],
                         EmbeddingDim, i)]

\* no process-file invocation is running; the store holds a snapshot
IngestIdle ==
    /\ apiKey \in BOOLEAN
    /\ \E n \in 0..MaxDocs :
           /\ documentsTable = SnapshotDocuments(n)
           /\ embeddingsTable =
                  SnapshotEmbeddings(IF 2 * n < MaxRows THEN 2 * n ELSE MaxRows)
    /\ pc = [r \in Runs |-> "idle"]
    /\ req = [r \in Runs |-> NoRequest]
    /\ fileData = [r \in Runs |-> <<>>]
    /\ text = [r \in Runs |-> <<>>]
    /\ document = [r \in Runs |-> NoDocument]
    /\ chunks = [r \in Runs |-> <<>>]
    /\ idx = [r \in Runs |-> 0]
    /\ embeddings = [r \in Runs |-> <<>>]
    /\ response = [r \in Runs |-> NoResponse]
    /\ calls = [r \in Runs |-> <<>>]

QueryStart(at) ==
    /\ qPc = [q \in Queries |-> at]
    /\ question = [q \in Queries |-> ""]
    /\ questionVector = [q \in Queries |-> NoVector]
    /\ similarChunks = [q \in Queries |-> <<>>]
    /\ relevantContext = [q \in Queries |-> <<>>]
    /\ result = [q \in Queries |-> NoResult]
    /\ qResponse = [q \in Queries |-> NoResponse]
    /\ qCalls = [q \in Queries |-> <<>>]

\* no query-rag invocation is running
QueryIdle == QueryStart("idle")

QueryInit == QueryStart("start")

\* req.method === 'OPTIONS'
QPreflight(q) ==
    /\ qPc[q] = "start"
    /\ qResponse' = [qResponse EXCEPT ![q] =
           [kind |-> "preflight", status |-> 200]]
    /\ qPc' = [qPc EXCEPT ![q] = "done"]
    /\ UNCHANGED <<ctVars, uiVars, ingestVars, question, questionVector,
                   similarChunks, relevantContext, result, qCalls>>

\* await req.json() throws on a body that is no JSON
QBadBody(q) ==
    /\ qPc[q] = "start"
    /\ qResponse' = [qResponse EXCEPT ![q] = ErrorResponse("Unexpected token")]
    /\ qPc' = [qPc EXCEPT ![q] = "done"]
    /\ UNCHANGED <<ctVars, uiVars, ingestVars, question, questionVector,
                   similarChunks, relevantContext, result, qCalls>>

\* the body is read, GEMINI_API_KEY is missing
QKeyMissing(q, asked) ==
    /\ qPc[q] = "start"
    /\ ~apiKey
    /\ question' = [question EXCEPT ![q] = asked]
    /\ qResponse' = [qResponse EXCEPT ![q] =
           ErrorResponse("Gemini API key not configured")]
    /\ qPc' = [qPc EXCEPT ![q] = "done"]
    /\ UNCHANGED <<ctVars, uiVars, ingestVars, questionVector, similarChunks,
                   relevantContext, result, qCalls>>

\* the body is read, the key is there: the embedding of the question is
\* requested
QReceive(q, asked) ==
    /\ qPc[q] = "start"
    /\ apiKey
    /\ question' = [question EXCEPT ![q] = asked]
    /\ qCalls' = [qCalls EXCEPT ![q] = Append(@, Call("fetchEmbedding", 0, TRUE))]
    /\ qPc' = [qPc EXCEPT ![q] = "embed"]
    /\ UNCHANGED <<ctVars, uiVars, ingestVars, questionVector, similarChunks,
                   relevantContext, result, qResponse>>

\* the embedding call answers with a vector: match_documents is called
QEmbedOk(q, vector) ==
    /\ qPc[q] = "embed"
    /\ questionVector' = [questionVector EXCEPT ![q] = vector]
    /\ qCalls' = [qCalls EXCEPT ![q] =
           Append(Append(@, Call("embed", 0, TRUE)),
                  Call("rpcMatchDocuments", 0, TRUE))]
    /\ qPc' = [qPc EXCEPT ![q] = "search"]
    /\ UNCHANGED <<ctVars, uiVars, ingestVars, question, similarChunks,
                   relevantContext, result, qResponse>>

\* the message thrown when the embedding of the question fails
QuestionEmbeddingError(failure) ==
    CASE failure = "notOk" -> "Failed to generate question embedding"
      [] failure = "noVector" -> "No embedding generated for question"
      [] failure = "badJson" -> "Unexpected token"
      [] OTHER -> "fetch failed"

\* mutant of QEmbedFailed: the failure is logged and the handler goes on to
\* the search without a vector
QEmbedFailureIgnored(q, failure) ==
    /\ qPc[q] = "embed"
    /\ failure \in EmbedFailures
    /\ qCalls' = [qCalls EXCEPT ![q] =
           Append(Append(@, Call("embed", 0, FALSE)),
                  Call("rpcMatchDocuments", 0, TRUE))]
    /\ qPc' = [qPc EXCEPT ![q] = "search"]
    /\ UNCHANGED <<ctVars, uiVars, ingestVars, question, questionVector,
                   similarChunks, relevantContext, result, qResponse>>

\* the embedding call fails: the throw goes to the outer catch
QEmbedFailed(q, failure) ==
    /\ qPc[q] = "embed"
    /\ failure \in EmbedFailures
    /\ qCalls' = [qCalls EXCEPT ![q] = Append(@, Call("embed", 0, FALSE))]
    /\ qResponse' = [qResponse EXCEPT ![q] =
           ErrorResponse(QuestionEmbeddingError(failure))]
    /\ qPc' = [qPc EXCEPT ![q] = "done"]
    /\ UNCHANGED <<ctVars, uiVars, ingestVars, question, questionVector,
                   similarChunks, relevantContext, result>>

\* mutant of QSearchOk: a search without matches is answered with an error
\* and no generation call
QSearchOkNoMatchFails(q, scores) ==
    /\ qPc[q] = "search"
    /\ questionVector[q] = EmbeddingDim
    /\ LET found == MatchDocuments(embeddingsTable, scores, MatchThreshold,
                                   MatchCount)
       IN  /\ similarChunks' = [similarChunks EXCEPT ![q] = found]
           /\ relevantContext' = [relevantContext EXCEPT ![q] =
                  ContextOfChunks(found)]
           /\ qCalls' = [qCalls EXCEPT ![q] =
                  IF Len(found) = 0
                  THEN Append(@, Call("matchDocuments", 0, TRUE))
                  ELSE Append(Append(@, Call("matchDocuments", 0, TRUE)),
                              Call("fetchGenerate", 0, TRUE))]
           /\ qPc' = [qPc EXCEPT ![q] =
                  IF Len(found) = 0 THEN "done" ELSE "generate"]
           /\ qResponse' = [qResponse EXCEPT ![q] =
                  IF Len(found) = 0 THEN ErrorResponse("No relevant documents")
                  ELSE @]
    /\ UNCHANGED <<ctVars, uiVars, ingestVars, question, questionVector,
                   result>>

\* match_documents answers (the query vector fits the column): the context
\* is built from its rows and the generation call is issued
QSearchOk(q, scores) ==
    /\ qPc[q] = "search"
    /\ questionVector[q] = EmbeddingDim
    /\ LET found == MatchDocuments(embeddingsTable, scores, MatchThreshold,
                                   MatchCount)
       IN  /\ similarChunks' = [similarChunks EXCEPT ![q] = found]
           /\ relevantContext' = [relevantContext EXCEPT ![q] =
                  ContextOfChunks(found)]
    /\ qCalls' = [qCalls EXCEPT ![q] =
           Append(Append(@, Call("matchDocuments", 0, TRUE)),
                  Call("fetchGenerate", 0, TRUE))]
    /\ qPc' = [qPc EXCEPT ![q] = "generate"]
    /\ UNCHANGED <<ctVars, uiVars, ingestVars, question, questionVector,
                   result, qResponse>>

\* match_documents answers, whatever the similarities of the stored rows
QSearch(q) ==
    \E scores \in [1..Len(embeddingsTable) -> Scores] : QSearchOk(q, scores)

\* match_documents errors: the fallback query is issued
QSearchError(q) ==
    /\ qPc[q] = "search"
    /\ qCalls' = [qCalls EXCEPT ![q] =
           Append(Append(@, Call("matchDocuments", 0, FALSE)),
                  Call("selectDocuments", 0, TRUE))]
    /\ qPc' = [qPc EXCEPT ![q] = "fallback"]
    /\ UNCHANGED <<ctVars, uiVars, ingestVars, question, questionVector,
                   similarChunks, relevantContext, result, qResponse>>

\* the fallback query answers with the rows at positions picked
QFallbackOk(q, picked) ==
    /\ qPc[q] = "fallback"
    /\ picked \in LimitedSelections(Len(documentsTable), FallbackLimit)
    /\ relevantContext' = [relevantContext EXCEPT ![q] =
           ContextOfDocuments([k \in 1..Len(picked) |->
                                  documentsTable[picked[k]]])]
    /\ qCalls' = [qCalls EXCEPT ![q] =
           Append(Append(@, Call("documents", 0, TRUE)),
                  Call("fetchGenerate", 0, TRUE))]
    /\ qPc' = [qPc EXCEPT ![q] = "generate"]
    /\ UNCHANGED <<ctVars, uiVars, ingestVars, question, questionVector,
                   similarChunks, result, qResponse>>

\* the fallback query answers with some rows
QFallback(q) ==
    \E picked \in LimitedSelections(Len(documentsTable), FallbackLimit) :
        QFallbackOk(q, picked)

\* the fallback query errors too: its error is not read, data is null and
\* the context stays ''
QFallbackError(q) ==
    /\ qPc[q] = "fallback"
    /\ qCalls' = [qCalls EXCEPT ![q] =
           Append(Append(@, Call("documents", 0, FALSE)),
                  Call("fetchGenerate", 0, TRUE))]
    /\ qPc' = [qPc EXCEPT ![q] = "generate"]
    /\ UNCHANGED <<ctVars, uiVars, ingestVars, question, questionVector,
                   similarChunks, relevantContext, result, qResponse>>

\* the generation call answers ok with a JSON body
QGenerateOk(q, generated) ==
    /\ qPc[q] = "generate"
    /\ generated \in GeneratedTexts
    /\ result' = [result EXCEPT ![q] = generated]
    /\ qCalls' = [qCalls EXCEPT ![q] = Append(@, Call("generate", 0, TRUE))]
    /\ qResponse' = [qResponse EXCEPT ![q] = AnswerResponse(AnswerOf(generated))]
    /\ qPc' = [qPc EXCEPT ![q] = "done"]
    /\ UNCHANGED <<ctVars, uiVars, ingestVars, question, questionVector,
                   similarChunks, relevantContext>>

\* the message thrown when the generation call fails
GenerationError(failure) ==
    CASE failure = "notOk" -> "Failed to generate response from Gemini"
      [] failure = "badJson" -> "Unexpected token"
      [] OTHER -> "fetch failed"

\* mutant of QGenerateFailed: a failed generation is answered with the fixed
\* message
QGenerateFailureAnswered(q, failure) ==
    /\ qPc[q] = "generate"
    /\ failure \in GenerateFailures
    /\ qCalls' = [qCalls EXCEPT ![q] = Append(@, Call("generate", 0, FALSE))]
    /\ qResponse' = [qResponse EXCEPT ![q] = AnswerResponse(FixedAnswer)]
    /\ qPc' = [qPc EXCEPT ![q] = "done"]
    /\ UNCHANGED <<ctVars, uiVars, ingestVars, question, questionVector,
                   similarChunks, relevantContext, result>>

\* the generation call fails: the throw goes to the outer catch
QGenerateFailed(q, failure) ==
    /\ qPc[q] = "generate"
    /\ failure \in GenerateFailures
    /\ qCalls' = [qCalls EXCEPT ![q] = Append(@, Call("generate", 0, FALSE))]
    /\ qResponse' = [qResponse EXCEPT ![q] =
           ErrorResponse(GenerationError(failure))]
    /\ qPc' = [qPc EXCEPT ![q] = "done"]
    /\ UNCHANGED <<ctVars, uiVars, ingestVars, question, questionVector,
                   similarChunks, relevantContext, result>>

(***************************************************************************)
(* FileUploader (browser component): validateFile and processFiles.        *)
(*   upList  : the FileList handed to processFiles                         *)
(*   upFiles : the files state, a list of UploadedFile entries             *)
(*   upValid : validFiles, each file named by its position in upList       *)
(*   upPos   : position of the for-of loop in validFiles                    *)
(*   upPc    : "idle", "upload" (awaiting storage.upload), "invoke"        *)
(*             (awaiting functions.invoke), "callback", "done"             *)
(*   upCalls : the storage uploads and process-file calls made, each with  *)
(*             the position in upList of the file it carried               *)
(***************************************************************************)
Png == "image/png"

\* 50 * 1024 * 1024
SizeLimit == 50 * 1024 * 1024

AllowedTypes == {Pdf, TextCsv, MsExcel, Xlsx}

\* the files a user may drop: a CSV file, a PDF of the same name that is
\* exactly at the size limit, a CSV of the same name above the limit, an
\* Excel workbook, an image, and an old Excel sheet
DroppedFiles ==
    { [name |-> "report.csv", type |-> TextCsv, size |-> 1],
      [name |-> "report.csv", type |-> Pdf,     size |-> SizeLimit],
      [name |-> "report.csv", type |-> TextCsv, size |-> SizeLimit + 1],
      [name |-> "sheet.xlsx", type |-> Xlsx,    size |-> 1],
      [name |-> "photo.png",  type |-> Png,     size |-> 1],
      [name |-> "old.xls",    type |-> MsExcel, size |-> 1] }

NoError == "null"

\* validateFile(file): the error message, or null
validateFile(file) ==
    IF file.type \notin AllowedTypes THEN "Only PDF and CSV files are allowed"
    ELSE IF file.size > SizeLimit THEN "File size must be less than 50MB"
    ELSE NoError

\* the UploadedFile created for the file at position k of the list; its id
\* (time stamp and random suffix) is unique
UploadedFile(list, k, base) ==
    LET error == validateFile(list[k])
    IN  [id |-> base + k, name |-> list[k].name, size |-> list[k].size,
         type |-> list[k].type,
         status |-> IF error # NoError THEN "error" ELSE "uploading",
         progress |-> 0, error |-> error]

\* newFiles after the forEach
NewFiles(list, base) ==
    [k \in 1..Len(list) |-> UploadedFile(list, k, base)]

\* validFiles after the forEach, as positions in the list
RECURSIVE ValidFiles(_, _)
ValidFiles(list, k) ==
    IF k > Len(list) THEN <<>>
    ELSE IF validateFile(list[k]) = NoError
         THEN <<k>> \o ValidFiles(list, k + 1)
         ELSE ValidFiles(list, k + 1)

\* newFiles.find(f => f.name === file.name).id for the file at position k:
\* the first new entry that has the file's name
CorrespondingId(list, k, base) ==
    LET first == CHOOSE j \in 1..Len(list) :
                     /\ list[j].name = list[k].name
                     /\ \A i \in 1..(j - 1) : list[i].name # list[k].name
    IN  base + first

\* setFiles(prev => prev.map(f => f.id === id ? {...f, ...patch} : f))
PatchStatus(prev, id, status, progress, error) ==
    [k \in 1..Len(prev) |->
        IF prev[k].id = id
        THEN [prev[k] EXCEPT !.status = status, !.progress = progress,
                             !.error = error]
        ELSE prev[k]]

UploaderIdle ==
    /\ upList = <<>>
    /\ upFiles = <<>>
    /\ upValid = <<>>
    /\ upPos = 0
    /\ upPc = "idle"
    /\ upCalls = <<>>

\* the file the loop stands at, as its position in upList
CurrentFile == upValid[upPos]

\* the id of correspondingFileData in the current iteration (the entries of
\* this call were appended to an empty files state)
CurrentId == CorrespondingId(upList, CurrentFile, 0)

\* the entry with the current id, as it is now
CurrentEntry == upFiles[CHOOSE k \in 1..Len(upFiles) : upFiles[k].id = CurrentId]

\* the loop goes on with the next valid file, or is left
NextFile ==
    /\ upPos' = upPos + 1
    /\ upPc' = IF upPos < Len(upValid) THEN "upload" ELSE "callback"

\* processFiles(fileList) up to the first await: entries are created and
\* appended; without a valid file the toast is shown and the call returns
ProcessFiles(list) ==
    /\ upPc = "idle"
    /\ upList' = list
    /\ upFiles' = upFiles \o NewFiles(list, Len(upFiles))
    /\ upValid' = ValidFiles(list, 1)
    /\ upPos' = 1
    /\ upPc' = IF Len(ValidFiles(list, 1)) = 0 THEN "done" ELSE "upload"
    /\ UNCHANGED <<ctVars, ingestVars, qVars, chVars, cfVars, upCalls>>

\* storage.upload succeeds: status 'processing', progress 50, and
\* process-file is invoked
UploadOk ==
    /\ upPc = "upload"
    /\ upCalls' = Append(upCalls, Call("upload", CurrentFile, TRUE))
    /\ upFiles' = PatchStatus(upFiles, CurrentId, "processing", 50,
                              CurrentEntry.error)
    /\ upPc' = "invoke"
    /\ UNCHANGED <<ctVars, ingestVars, qVars, chVars, cfVars, upList, upValid,
                   upPos>>

\* storage.upload answers with an error: status 'error', continue
UploadError ==
    /\ upPc = "upload"
    /\ upCalls' = Append(upCalls, Call("upload", CurrentFile, FALSE))
    /\ upFiles' = PatchStatus(upFiles, CurrentId, "error",
                              CurrentEntry.progress, "Upload failed")
    /\ NextFile
    /\ UNCHANGED <<ctVars, ingestVars, qVars, chVars, cfVars, upList,
                   upValid>>

\* storage.upload rejects: the catch sets status 'error'
UploadThrows ==
    /\ upPc = "upload"
    /\ upCalls' = Append(upCalls, Call("upload", CurrentFile, FALSE))
    /\ upFiles' = PatchStatus(upFiles, CurrentId, "error",
                              CurrentEntry.progress, "Processing error")
    /\ NextFile
    /\ UNCHANGED <<ctVars, ingestVars, qVars, chVars, cfVars, upList,
                   upValid>>

\* functions.invoke('process-file') succeeds: status 'completed', 100
InvokeOk ==
    /\ upPc = "invoke"
    /\ upCalls' = Append(upCalls, Call("invoke", CurrentFile, TRUE))
    /\ upFiles' = PatchStatus(upFiles, CurrentId, "completed", 100,
                              CurrentEntry.error)
    /\ NextFile
    /\ UNCHANGED <<ctVars, ingestVars, qVars, chVars, cfVars, upList,
                   upValid>>

\* functions.invoke answers with processError
InvokeError ==
    /\ upPc = "invoke"
    /\ upCalls' = Append(upCalls, Call("invoke", CurrentFile, FALSE))
    /\ upFiles' = PatchStatus(upFiles, CurrentId, "error",
                              CurrentEntry.progress, "Processing failed")
    /\ NextFile
    /\ UNCHANGED <<ctVars, ingestVars, qVars, chVars, cfVars, upList,
                   upValid>>

\* functions.invoke rejects: the catch sets status 'error'
InvokeThrows ==
    /\ upPc = "invoke"
    /\ upCalls' = Append(upCalls, Call("invoke", CurrentFile, FALSE))
    /\ upFiles' = PatchStatus(upFiles, CurrentId, "error",
                              CurrentEntry.progress, "Processing error")
    /\ NextFile
    /\ UNCHANGED <<ctVars, ingestVars, qVars, chVars, cfVars, upList,
                   upValid>>

\* after the loop: onFilesUploaded(validFiles), if given, resolves or
\* rejects; neither touches the files state
OnFilesUploaded ==
    /\ upPc = "callback"
    /\ upPc' = "done"
    /\ UNCHANGED <<ctVars, ingestVars, qVars, chVars, cfVars, upList, upFiles,
                   upValid, upPos, upCalls>>

(***************************************************************************)
(* ChatInterface (browser component), one mounted instance.                *)
(*   chInput    : the input state, a string                                *)
(*   chLoading  : the isLoading state                                      *)
(*   chMessages : the messages state; it starts with the greeting          *)
(*   chPending  : the calls of onSendMessage that have not settled         *)
(***************************************************************************)
InputChars == {" ", "a"}

\* input.trim(): whitespace is dropped at both ends
RECURSIVE TrimStart(_)
TrimStart(str) ==
    IF Len(str) > 0 /\ IsSpace(str[1]) THEN TrimStart(Tail(str)) ELSE str

RECURSIVE TrimEnd(_)
TrimEnd(str) ==
    IF Len(str) > 0 /\ IsSpace(str[Len(str)])
    THEN TrimEnd(SubSeq(str, 1, Len(str) - 1))
    ELSE str

Trim(str) == TrimEnd(TrimStart(str))

Greeting == [role |-> "assistant", content |-> "Hello!"]

ChatError == "Sorry, I encountered an error."

\* what onSendMessage may resolve to
ChatResponses == {"reply"}

ChatIdle ==
    /\ chInput = <<>>
    /\ chLoading = FALSE
    /\ chMessages = <<Greeting>>
    /\ chPending = 0

\* onChange of the input, which is disabled while isLoading
TypeInput(str) ==
    /\ ~chLoading
    /\ chInput' = str
    /\ UNCHANGED <<ctVars, ingestVars, qVars, upVars, cfVars, chLoading,
                   chMessages, chPending>>

\* handleSend (button click or Enter) up to its await: it returns at once
\* when the trimmed input is empty or isLoading; otherwise the user message
\* is appended, the input cleared, isLoading set and onSendMessage called
HandleSend ==
    /\ Len(chMessages) < 1 + 2 * MaxSends
    /\ IF Len(Trim(chInput)) = 0 \/ chLoading
       THEN UNCHANGED <<chInput, chLoading, chMessages, chPending>>
       ELSE /\ chMessages' = Append(chMessages,
                                    [role |-> "user", content |-> Trim(chInput)])
            /\ chInput' = <<>>
            /\ chLoading' = TRUE
            /\ chPending' = chPending + 1
    /\ UNCHANGED <<ctVars, ingestVars, qVars, upVars, cfVars>>

\* onSendMessage resolves: the assistant message is appended; finally
\* isLoading is reset
SendResolved(reply) ==
    /\ chPending > 0
    /\ chPending' = chPending - 1
    /\ chMessages' = Append(chMessages, [role |-> "assistant", content |-> reply])
    /\ chLoading' = FALSE
    /\ UNCHANGED <<ctVars, ingestVars, qVars, upVars, cfVars, chInput>>

\* mutant of SendRejected: the catch appends the error message but isLoading
\* is not reset
SendRejectedKeepsLoading ==
    /\ chPending > 0
    /\ chPending' = chPending - 1
    /\ chMessages' = Append(chMessages, [role |-> "assistant", content |-> ChatError])
    /\ UNCHANGED <<ctVars, ingestVars, qVars, upVars, cfVars, chInput,
                   chLoading>>

\* onSendMessage rejects: the catch appends the fixed error message; finally
\* isLoading is reset
SendRejected ==
    /\ chPending > 0
    /\ chPending' = chPending - 1
    /\ chMessages' = Append(chMessages, [role |-> "assistant", content |-> ChatError])
    /\ chLoading' = FALSE
    /\ UNCHANGED <<ctVars, ingestVars, qVars, upVars, cfVars, chInput>>

(***************************************************************************)
(* ConfigPanel (browser component) and the rag-config item of localStorage.*)
(*   cfConfig : the config state of the mounted instance                   *)
(*   cfSaved  : the rag-config item, or NoSaved                            *)
(*   cfTimer  : the 2 s timer of testVectorDbConnection of the mounted     *)
(*              instance is pending                                        *)
(*   cfMounts : how often the panel has been mounted again                 *)
(***************************************************************************)
ApiKeys == {"", "key-1"}

Dimensions == {EmbeddingDim, 1536}

\* useState({...}): the initial config
DefaultConfig ==
    [geminiApiKey |-> "", connectionStatus |-> "disconnected",
     dimensions |-> EmbeddingDim]

NoSaved == [geminiApiKey |-> "", connectionStatus |-> "none", dimensions |-> 0]

ConfigIdle ==
    /\ cfConfig = DefaultConfig
    /\ cfSaved = NoSaved
    /\ cfTimer = FALSE
    /\ cfMounts = 0

\* onChange of the API key input
SetApiKey(key) ==
    /\ cfConfig' = [cfConfig EXCEPT !.geminiApiKey = key]
    /\ UNCHANGED <<ctVars, ingestVars, qVars, upVars, chVars, cfSaved,
                   cfTimer, cfMounts>>

\* onChange of the dimensions input
SetDimensions(dim) ==
    /\ cfConfig' = [cfConfig EXCEPT !.dimensions = dim]
    /\ UNCHANGED <<ctVars, ingestVars, qVars, upVars, chVars, cfSaved,
                   cfTimer, cfMounts>>

\* testVectorDbConnection up to its await; the button is disabled while the
\* status is 'connecting'
TestVectorDbConnection ==
    /\ cfConfig.connectionStatus # "connecting"
    /\ cfConfig' = [cfConfig EXCEPT !.connectionStatus = "connecting"]
    /\ cfTimer' = TRUE
    /\ UNCHANGED <<ctVars, ingestVars, qVars, upVars, chVars, cfSaved,
                   cfMounts>>

\* the timer fires: the status becomes 'connected'
ConnectionTimeout ==
    /\ cfTimer
    /\ cfConfig' = [cfConfig EXCEPT !.connectionStatus = "connected"]
    /\ cfTimer' = FALSE
    /\ UNCHANGED <<ctVars, ingestVars, qVars, upVars, chVars, cfSaved,
                   cfMounts>>

\* handleSave: localStorage.setItem('rag-config', JSON.stringify(config))
HandleSave ==
    /\ cfSaved' = cfConfig
    /\ UNCHANGED <<ctVars, ingestVars, qVars, upVars, chVars, cfConfig,
                   cfTimer, cfMounts>>

\* the panel is unmounted (another tab is shown, or the page is reloaded)
\* and mounted again: the state starts from the defaults, the effect merges
\* the saved config into it, and a timer of the old instance no longer
\* changes anything
Remount ==
    /\ cfMounts < MaxMounts
    /\ cfMounts' = cfMounts + 1
    /\ cfConfig' = IF cfSaved = NoSaved THEN DefaultConfig ELSE cfSaved
    /\ cfTimer' = FALSE
    /\ UNCHANGED <<ctVars, ingestVars, qVars, upVars, chVars, cfSaved>>

\* no browser component is in use
UiIdle == UploaderIdle /\ ChatIdle /\ ConfigIdle

(***************************************************************************)
(* Specifications.                                                         *)
(***************************************************************************)
Init == CtIdle /\ IngestInit /\ QueryIdle /\ UiIdle

\* one step of run r of process-file
IngestStep(r) ==
    \/ Preflight(r)
    \/ BadBody(r)
    \/ \E body \in Requests : Receive(r, body)
    \/ DownloadOk(r)
    \/ DownloadError(r)
    \/ ExtractText(r)
    \/ InsertDocumentOk(r)
    \/ InsertDocumentError(r)
    \/ ChunkStep(r)
    \/ ApiKeyPresent(r)
    \/ ApiKeyMissing(r)
    \/ EmbedRequest(r)
    \/ \E vector \in VectorDims : EmbedOk(r, vector)
    \/ \E failure \in EmbedFailures : EmbedSkipped(r, failure)
    \/ InsertEmbeddingsOk(r)
    \/ InsertEmbeddingsError(r)
    \/ RespondWithoutEmbeddings(r)

Next == \E r \in Runs : IngestStep(r)

Spec == Init /\ [][Next]_vars

\* chunkText alone: the handler is not invoked
InitChunk == CtInit /\ IngestInit /\ apiKey /\ QueryIdle /\ UiIdle

NextChunk == CallChunkText

SpecChunk == InitChunk /\ [][NextChunk]_vars

\* the query-rag function invoked against a store left by earlier ingestions
InitQuery == CtIdle /\ IngestIdle /\ QueryInit /\ UiIdle

\* one step of run q of query-rag
QueryStep(q) ==
    \/ QPreflight(q)
    \/ QBadBody(q)
    \/ \E asked \in Questions : QKeyMissing(q, asked)
    \/ \E asked \in Questions : QReceive(q, asked)
    \/ \E vector \in VectorDims : QEmbedOk(q, vector)
    \/ \E failure \in EmbedFailures : QEmbedFailed(q, failure)
    \/ QSearch(q)
    \/ QSearchError(q)
    \/ QFallback(q)
    \/ QFallbackError(q)
    \/ \E generated \in GeneratedTexts : QGenerateOk(q, generated)
    \/ \E failure \in GenerateFailures : QGenerateFailed(q, failure)

NextQuery == \E q \in Queries : QueryStep(q)

SpecQuery == InitQuery /\ [][NextQuery]_vars

\* either function invoked
InitEntrypoints == Init \/ InitQuery

NextEntrypoints == Next \/ NextQuery

SpecEntrypoints == InitEntrypoints /\ [][NextEntrypoints]_vars

\* FileUploader on its own: one call of processFiles with up to MaxBatch
\* dropped files
InitUpload == CtIdle /\ IngestInit /\ apiKey /\ QueryIdle /\ UiIdle

NextUpload ==
    \/ \E list \in SeqsUpTo(DroppedFiles, MaxBatch) \ {<<>>} : ProcessFiles(list)
    \/ UploadOk
    \/ UploadError
    \/ UploadThrows
    \/ InvokeOk
    \/ InvokeError
    \/ InvokeThrows
    \/ OnFilesUploaded

SpecUpload == InitUpload /\ [][NextUpload]_vars

\* ChatInterface on its own: the user types and sends at most MaxSends
\* messages
InitChat == CtIdle /\ IngestInit /\ apiKey /\ QueryIdle /\ UiIdle

\* a pending call of onSendMessage settles
SendSettles ==
    \/ \E reply \in ChatResponses : SendResolved(reply)
    \/ SendRejected

NextChat ==
    \/ \E str \in SeqsUpTo(InputChars, MaxInput) : TypeInput(str)
    \/ HandleSend
    \/ SendSettles

\* every call of onSendMessage settles: it resolves or rejects
SpecChat == InitChat /\ [][NextChat]_vars /\ WF_vars(SendSettles)

\* ConfigPanel on its own; the timer of a mounted instance fires
InitConfig == CtIdle /\ IngestInit /\ apiKey /\ QueryIdle /\ UiIdle

NextConfig ==
    \/ \E key \in ApiKeys : SetApiKey(key)
    \/ \E dim \in Dimensions : SetDimensions(dim)
    \/ TestVectorDbConnection
    \/ ConnectionTimeout
    \/ HandleSave
    \/ Remount

SpecConfig == InitConfig /\ [][NextConfig]_vars /\ WF_vars(ConnectionTimeout)

(***************************************************************************)
(* Vocabulary of the chunker's contract.                                   *)
(***************************************************************************)
\* the words of a text: its maximal runs of non-whitespace characters
RECURSIVE WordScan(_, _, _, _)
WordScan(str, i, cur, out) ==
    IF i > Len(str)
    THEN IF Len(cur) > 0 THEN Append(out, cur) ELSE out
    ELSE IF IsSpace(str[i])
         THEN WordScan(str, i + 1, <<>>,
                       IF Len(cur) > 0 THEN Append(out, cur) ELSE out)
         ELSE WordScan(str, i + 1, Append(cur, str[i]), out)

WordsOf(str) == WordScan(str, 1, <<>>, <<>>)

\* chunk.split(' '): every single blank is a separator
RECURSIVE SplitBlankScan(_, _, _, _)
SplitBlankScan(s, i, cur, out) ==
    IF i > Len(s) THEN Append(out, cur)
    ELSE IF s[i] = " "
         THEN SplitBlankScan(s, i + 1, <<>>, Append(out, cur))
         ELSE SplitBlankScan(s, i + 1, Append(cur, s[i]), out)

SplitBlank(s) == SplitBlankScan(s, 1, <<>>, <<>>)

RECURSIVE Flatten(_)
Flatten(ss) == IF Len(ss) = 0 THEN <<>> ELSE ss[1] \o Flatten(Tail(ss))

NonEmpty(w) == Len(w) > 0

\* the pieces of every chunk, split on its blanks, in chunk order
PiecesOf(closed) == Flatten([k \in 1..Len(closed) |-> SplitBlank(closed[k])])

CeilDiv(n, m) == (n + m - 1) \div m

CtReturned == ctPc = "returned"

\* number of words in one chunk
WordCount(chunk) == Len(SelectSeq(SplitBlank(chunk), NonEmpty))

(***************************************************************************)
(* Claims about chunkText, checked under SpecChunk.                        *)
(***************************************************************************)

\* C1: for a text of N words and maxTokens M > 0, chunkText returns exactly
\* ceil(N/M) chunks.
C1_ChunkCount ==
    CtReturned =>
        Len(ctChunks) = CeilDiv(Len(WordsOf(ctText)), ctMaxTokens)

C3_EmptyInput ==
    (CtReturned /\ ctText = <<>>) => ctChunks = <<>>

\* C4: for a non-empty text, every chunk but the last holds exactly maxTokens
\* words, the last holds between 1 and maxTokens words, and a text with fewer
\* than maxTokens words yields exactly one chunk.
C4_ChunkSizes ==
    (CtReturned /\ ctText # <<>>) =>
        /\ Len(ctChunks) >= 1
        /\ \A k \in 1..(Len(ctChunks) - 1) : WordCount(ctChunks[k]) = ctMaxTokens
        /\ \A k \in {Len(ctChunks)} \cap (1..Len(ctChunks)) :
               WordCount(ctChunks[k]) \in 1..ctMaxTokens
        /\ (Len(WordsOf(ctText)) < ctMaxTokens => Len(ctChunks) = 1)

(***************************************************************************)
(* Vocabulary of the ingestion claims.                                     *)
(***************************************************************************)
Done(r) == pc[r] = "done"

Succeeded(r) == response[r].kind = "success"

Failed(r) == response[r].kind = "error"

IsEmbedCall(c) == c.op = "embed"

\* the embedding calls run r has made, in the order it made them
EmbedCalls(r) == SelectSeq(calls[r], IsEmbedCall)

IsOk(c) == c.ok

\* run r made call op and it failed
CallFailed(r, op) ==
    \E k \in 1..Len(calls[r]) : calls[r][k].op = op /\ ~calls[r][k].ok

\* run r made call op and it succeeded
CallOk(r, op) ==
    \E k \in 1..Len(calls[r]) : calls[r][k].op = op /\ calls[r][k].ok

\* the rows of table embeddings that belong to document id, in table order
RowsOf(id) ==
    LET Owned(e) == e.document_id = id
    IN  SelectSeq(embeddingsTable, Owned)

\* every chunk of run r has had its embedding call, and each succeeded
AllEmbedded(r) ==
    /\ Len(EmbedCalls(r)) = Len(chunks[r])
    /\ \A k \in 1..Len(EmbedCalls(r)) : EmbedCalls(r)[k].ok

\* the types the handler's first branch decodes as CSV text
TextTypes == {TextCsv, MsExcel}

(***************************************************************************)
(* Claims about the ingestion handler, checked under Spec.                 *)
(***************************************************************************)

\* C5: a run that split its text into n chunks, had every embedding call
\* succeed and returned its success response has persisted exactly n
\* embedding rows for its document, row k holding chunk k with chunk index
\* k - 1, and reports chunksProcessed = n.
C5_AllEmbedded ==
    \A r \in Runs :
        (Succeeded(r) /\ AllEmbedded(r)) =>
            LET n == Len(chunks[r])
                rows == RowsOf(document[r].id)
            IN  /\ Len(rows) = n
                /\ \A k \in 1..Len(rows) :
                       /\ rows[k].metadata.chunk_index = k - 1
                       /\ k <= n => rows[k].content = chunks[r][k]
                /\ response[r].chunksProcessed = n

\* C5 witness: a run over a three-chunk text, all three embedded, answered
\* with chunksProcessed = 3.
C5_Witness ==
    \E r \in Runs :
        /\ Succeeded(r)
        /\ AllEmbedded(r)
        /\ Len(chunks[r]) = 3
        /\ Len(RowsOf(document[r].id)) = 3
        /\ response[r].chunksProcessed = 3

\* C6: a failed embedding call never ends the run: every chunk gets its
\* call, in order, whatever happened to the chunks before it; no error
\* response is caused by an embedding call; a run that reached the loop and
\* whose batch insert did not fail ends in success; and the success response
\* counts exactly the chunks whose embedding call succeeded.
C6_PartialSuccess ==
    \A r \in Runs :
        /\ pc[r] \in {"embed", "store"} =>
               /\ Len(EmbedCalls(r)) = idx[r] - 1
               /\ \A k \in 1..Len(EmbedCalls(r)) : EmbedCalls(r)[k].arg = k
        /\ (Done(r) /\ Len(EmbedCalls(r)) > 0) =>
               /\ Len(EmbedCalls(r)) = Len(chunks[r])
               /\ ~CallFailed(r, "insertEmbeddings") => Succeeded(r)
        /\ Succeeded(r) =>
               /\ Len(EmbedCalls(r)) = Len(chunks[r])
               /\ response[r].chunksProcessed =
                      Len(SelectSeq(EmbedCalls(r), IsOk))

\* C6 witness: one embedding call out of three failed and the run answered
\* success with chunksProcessed = 2.
C6_Witness ==
    \E r \in Runs :
        /\ Succeeded(r)
        /\ Len(chunks[r]) = 3
        /\ Len(EmbedCalls(r)) = 3
        /\ Len(SelectSeq(EmbedCalls(r), IsOk)) = 2
        /\ response[r].chunksProcessed = 2

\* C7: the chunk index stored with an embedding row is the position (from
\* 0) of that row's chunk in the chunker's output for its document.
C7_ChunkIndex ==
    \A k \in 1..Len(embeddingsTable) :
        \A r \in Runs :
            document[r].id = embeddingsTable[k].document_id =>
                LET i == embeddingsTable[k].metadata.chunk_index + 1
                IN  /\ i \in 1..Len(chunks[r])
                    /\ chunks[r][i] = embeddingsTable[k].content

\* C8: when a run has ended with an error response, the store holds neither
\* a document row nor embedding rows created by that run.
C8_NoPartialDocument ==
    \A r \in Runs :
        Failed(r) =>
            /\ \A k \in 1..Len(documentsTable) :
                   documentsTable[k].id # document[r].id
            /\ Len(RowsOf(document[r].id)) = 0

\* C9: a failed download or a failed document insert ends the run with an
\* error response of status 500; the run has made no embedding call and no
\* embeddings insert and holds no document, a failed download being its
\* only call; and every row of the store was written by a run whose
\* download and document insert succeeded.
C9_FatalDownloadAndInsert ==
    /\ \A r \in Runs :
           /\ CallFailed(r, "download") =>
                  /\ Done(r) /\ Failed(r) /\ response[r].status = 500
                  /\ calls[r] = <<Call("download", 0, FALSE)>>
                  /\ document[r] = NoDocument
           /\ CallFailed(r, "insertDocument") =>
                  /\ Done(r) /\ Failed(r) /\ response[r].status = 500
                  /\ Len(EmbedCalls(r)) = 0
                  /\ ~CallOk(r, "fetchEmbedding")
                  /\ ~CallOk(r, "insertEmbeddings")
                  /\ ~CallFailed(r, "insertEmbeddings")
                  /\ document[r] = NoDocument
    /\ \A k \in 1..Len(documentsTable) :
           \E r \in Runs :
               /\ document[r] = documentsTable[k]
               /\ CallOk(r, "download") /\ CallOk(r, "insertDocument")
    /\ \A k \in 1..Len(embeddingsTable) :
           \E r \in Runs :
               /\ document[r].id = embeddingsTable[k].document_id
               /\ CallOk(r, "download") /\ CallOk(r, "insertDocument")
    /\ Len(documentsTable) =
           Cardinality({r \in Runs : CallOk(r, "insertDocument")})

\* C9 witness: one run ended on a failed download and another on a failed
\* document insert, while the store is empty.
C9_Witness ==
    \E r1, r2 \in Runs :
        /\ Done(r1) /\ CallFailed(r1, "download") /\ Failed(r1)
        /\ Done(r2) /\ CallFailed(r2, "insertDocument") /\ Failed(r2)
        /\ documentsTable = <<>>
        /\ embeddingsTable = <<>>

\* C10: a file whose declared type has no text extractor (any type but the
\* CSV text types) is rejected: its run ends with an error response and no
\* document of that type is ever stored.
C10_RejectUnregistered ==
    /\ \A k \in 1..Len(documentsTable) : documentsTable[k].type \in TextTypes
    /\ \A r \in Runs :
           (Done(r) /\ response[r].kind # "preflight"
                    /\ req[r] # NoRequest /\ req[r].fileType \notin TextTypes)
               => Failed(r)

\* C11: when GEMINI_API_KEY is absent a run reports the configuration error
\* before it attempts any call: it has made no call and the store is empty.
C11_KeyCheckedFirst ==
    ~apiKey =>
        /\ \A r \in Runs : calls[r] = <<>>
        /\ documentsTable = <<>>
        /\ embeddingsTable = <<>>

\* C12: every persisted embedding vector has EmbeddingDim components, and a
\* vector of another length is rejected by the handler: it is never put in
\* the batch, so no embeddings insert is issued with one.
C12_DimensionChecked ==
    /\ \A k \in 1..Len(embeddingsTable) :
           embeddingsTable[k].embedding = EmbeddingDim
    /\ \A r \in Runs :
           (CallOk(r, "insertEmbeddings") \/ CallFailed(r, "insertEmbeddings"))
               => BatchAccepted(embeddings[r])

QDone(q) == qPc[q] = "done"

\* run q of query-rag has made call op (whatever its outcome)
QCalled(q, op) == \E k \in 1..Len(qCalls[q]) : qCalls[q][k].op = op

QCallFailed(q, op) ==
    \E k \in 1..Len(qCalls[q]) : qCalls[q][k].op = op /\ ~qCalls[q][k].ok

QCallOk(q, op) ==
    \E k \in 1..Len(qCalls[q]) : qCalls[q][k].op = op /\ qCalls[q][k].ok

\* how many times run q has made call op
QCount(q, op) ==
    LET IsOp(c) == c.op = op
    IN  Len(SelectSeq(qCalls[q], IsOp))

\* a response with a success status
IsSuccessStatus(resp) == resp.status >= 200 /\ resp.status < 300

\* the body of resp is {success, documentId, chunksProcessed}
IsIngestSuccess(resp) ==
    /\ resp.kind = "success"
    /\ DOMAIN resp = {"kind", "status", "success", "documentId",
                      "chunksProcessed"}
    /\ resp.success
    /\ resp.chunksProcessed \in Nat
    /\ IsSuccessStatus(resp)

\* the body of resp is {answer}
IsAnswer(resp) ==
    /\ resp.kind = "answer"
    /\ DOMAIN resp = {"kind", "status", "answer"}
    /\ IsSuccessStatus(resp)

\* the body of resp is {error}, sent with a non-success status
IsError(resp) ==
    /\ resp.kind = "error"
    /\ DOMAIN resp = {"kind", "status", "error"}
    /\ ~IsSuccessStatus(resp)

\* the reply to a CORS preflight, which starts no pipeline run
IsPreflight(resp) == resp.kind = "preflight"

\* C13: every run of either entrypoint ends in exactly one structured
\* result.  A run has a response exactly when it has ended; until then it
\* always has a next step; once it has ended it has none, so the response is
\* never replaced or followed by a second one; and the response of a run
\* that was not a CORS preflight is the success body of its entrypoint or an
\* {error} body with a non-success status, whichever step failed.
C13_OneStructuredResult ==
    /\ \A r \in Runs :
           /\ Done(r) <=> response[r] # NoResponse
           /\ (pc[r] # "idle" /\ ~Done(r)) => ENABLED IngestStep(r)
           /\ Done(r) =>
                  /\ ~ENABLED IngestStep(r)
                  /\ \/ IsPreflight(response[r])
                     \/ IsIngestSuccess(response[r])
                     \/ IsError(response[r])
    /\ \A q \in Queries :
           /\ QDone(q) <=> qResponse[q] # NoResponse
           /\ (qPc[q] # "idle" /\ ~QDone(q)) => ENABLED QueryStep(q)
           /\ QDone(q) =>
                  /\ ~ENABLED QueryStep(q)
                  /\ \/ IsPreflight(qResponse[q])
                     \/ IsAnswer(qResponse[q])
                     \/ IsError(qResponse[q])

\* C13 witness: one ingestion run ended on a malformed request body with an
\* {error} response and status 500, the other ended with the success body.
C13_Witness ==
    \E r1, r2 \in Runs :
        /\ Done(r1) /\ req[r1] = NoRequest
        /\ IsError(response[r1])
        /\ response[r1].error = "Unexpected token"
        /\ Done(r2) /\ IsIngestSuccess(response[r2])
        /\ response[r2].chunksProcessed = 3

\* C14: a failed question embedding is fatal.  When the embedding call for
\* the question fails (the request throws, the response is not ok, or it
\* carries no vector) the run has ended with an {error} response and has
\* made no similarity-search call, no fallback query and no generation call.
C14_QuestionEmbeddingFatal ==
    \A q \in Queries :
        QCallFailed(q, "embed") =>
            /\ QDone(q)
            /\ IsError(qResponse[q])
            /\ ~QCalled(q, "rpcMatchDocuments")
            /\ ~QCalled(q, "matchDocuments")
            /\ ~QCalled(q, "selectDocuments")
            /\ ~QCalled(q, "documents")
            /\ ~QCalled(q, "fetchGenerate")
            /\ ~QCalled(q, "generate")

\* C14 witness: the embedding response had no vector field; the run ended
\* with that error after its single embedding request.
C14_Witness ==
    \E q \in Queries :
        /\ QDone(q)
        /\ QCallFailed(q, "embed")
        /\ qResponse[q] = ErrorResponse("No embedding generated for question")
        /\ Len(qCalls[q]) = 2
        /\ Len(documentsTable) > 0

\* the positions of the documents created last, at most limit of them
MostRecent(limit) ==
    {k \in 1..Len(documentsTable) : k > Len(documentsTable) - limit}

\* the contexts made of the most recently created documents, in any order
RecentContexts(limit) ==
    {ContextOfDocuments([k \in 1..Len(picked) |-> documentsTable[picked[k]]]) :
        picked \in {p \in LimitedSelections(Len(documentsTable), limit) :
                       {p[k] : k \in 1..Len(p)} = MostRecent(limit)}}

\* C15: when the similarity search errors and the fallback query answers,
\* the context is the content of the FallbackLimit most recently created
\* documents (fewer if fewer exist), generation is still called, and a
\* successful generation gives a non-error {answer}.
C15_FallbackMostRecent ==
    \A q \in Queries :
        (QCallFailed(q, "matchDocuments") /\ QCallOk(q, "documents")) =>
            /\ relevantContext[q] \in RecentContexts(FallbackLimit)
            /\ QCount(q, "fetchGenerate") = 1
            /\ QCallOk(q, "generate") => IsAnswer(qResponse[q])

\* the context of run q is settled: the search, and the fallback if there
\* was one, are over
ContextSettled(q) ==
    \/ qPc[q] = "generate"
    \/ QDone(q) /\ QCalled(q, "generate")

\* the search of run q succeeded with zero matches
NoMatches(q) ==
    QCallOk(q, "matchDocuments") /\ Len(similarChunks[q]) = 0

\* C16: with an empty context generation still runs.  When the search
\* succeeds with zero matches, and whenever the store holds no document, the
\* context is the empty string, the generation call has been made exactly
\* once, and a run that ended after a successful generation returned that
\* generation's answer, not an error.
C16_EmptyContextStillGenerates ==
    \A q \in Queries :
        /\ NoMatches(q) =>
               /\ ContextSettled(q)
               /\ relevantContext[q] = <<>>
               /\ QCount(q, "fetchGenerate") = 1
               /\ QCount(q, "generate") = (IF QDone(q) THEN 1 ELSE 0)
               /\ QCallOk(q, "generate") =>
                      /\ IsAnswer(qResponse[q])
                      /\ qResponse[q].answer = AnswerOf(result[q])
        /\ (documentsTable = <<>> /\ ContextSettled(q)) =>
               /\ relevantContext[q] = <<>>
               /\ QCount(q, "fetchGenerate") = 1
               /\ QCallOk(q, "generate") =>
                      /\ IsAnswer(qResponse[q])
                      /\ qResponse[q].answer = AnswerOf(result[q])

\* C16 witness: the store holds chunks, none of them is similar enough, and
\* the run returned the generated answer.
C16_Witness ==
    \E q \in Queries :
        /\ QDone(q)
        /\ Len(embeddingsTable) > 0
        /\ NoMatches(q)
        /\ relevantContext[q] = <<>>
        /\ qResponse[q] = AnswerResponse("about 100 km")

\* C17: a failed generation is fatal.  When the generation call throws,
\* answers with a non-success status or with a body that does not parse, the
\* run has ended with an {error} response and a non-success status, never
\* with an {answer}.
C17_GenerationFatal ==
    \A q \in Queries :
        QCallFailed(q, "generate") =>
            /\ QDone(q)
            /\ IsError(qResponse[q])
            /\ ~IsAnswer(qResponse[q])

\* C17 witness: the generation call answered with a non-success status after
\* a search that found chunks.
C17_Witness ==
    \E q \in Queries :
        /\ QDone(q)
        /\ Len(similarChunks[q]) > 0
        /\ QCallFailed(q, "generate")
        /\ qResponse[q] =
               ErrorResponse("Failed to generate response from Gemini")

\* C18 as stated: after a successful generation the run returns {answer};
\* the answer is the text of the response when the text is present, and it
\* is the fixed message if and only if the text is absent.
C18_FixedMessageIffAbsent ==
    \A q \in Queries :
        QCallOk(q, "generate") =>
            /\ IsAnswer(qResponse[q])
            /\ result[q].present => qResponse[q].answer = result[q].text
            /\ qResponse[q].answer = FixedAnswer <=> ~result[q].present

\* C18 amended: after a successful generation the run returns {answer}; the
\* answer is the text of the response when the text is present and not
\* empty, and it is the fixed message if and only if the text is absent or
\* the empty string.
C18_FixedMessageIffAbsentOrEmpty ==
    \A q \in Queries :
        QCallOk(q, "generate") =>
            /\ IsAnswer(qResponse[q])
            /\ (result[q].present /\ result[q].text # "") =>
                   qResponse[q].answer = result[q].text
            /\ qResponse[q].answer = FixedAnswer <=>
                   (~result[q].present \/ result[q].text = "")

\* C18 witness: the response carried an empty answer text and the run
\* returned the fixed message.
C18_Witness ==
    \E q \in Queries :
        /\ QDone(q)
        /\ QCallOk(q, "generate")
        /\ result[q].present /\ result[q].text = ""
        /\ qResponse[q] = AnswerResponse(FixedAnswer)

\* C21: when the search succeeds the context is built from the chunks the
\* search returned and from nothing else: each has a similarity of at least
\* MatchThreshold, there are at most MatchCount of them, they are in
\* descending similarity order, and the context is their contents joined in
\* that order.
C21_SearchResultShape ==
    \A q \in Queries :
        QCallOk(q, "matchDocuments") =>
            LET found == similarChunks[q]
            IN  /\ Len(found) <= MatchCount
                /\ \A k \in 1..Len(found) :
                       found[k].similarity >= MatchThreshold
                /\ \A j, k \in 1..Len(found) :
                       j < k => found[j].similarity >= found[k].similarity
                /\ \A k \in 1..Len(found) :
                       \E e \in 1..Len(embeddingsTable) :
                           embeddingsTable[e].content = found[k].content
                /\ relevantContext[q] =
                       JoinParagraphs([k \in 1..Len(found) |-> found[k].content])

\* C21 witness: more stored chunks pass the threshold than the cap allows,
\* with different similarities; MatchCount of them make the context.
C21_Witness ==
    \E q \in Queries :
        /\ QCallOk(q, "matchDocuments")
        /\ Len(embeddingsTable) > MatchCount
        /\ Len(similarChunks[q]) = MatchCount
        /\ similarChunks[q][1].similarity > similarChunks[q][MatchCount].similarity
        /\ Len(relevantContext[q]) > 0

\* the state that belongs to run r of process-file alone
LocalOf(r) ==
    <<pc[r], req[r], fileData[r], text[r], document[r], chunks[r], idx[r],
      embeddings[r], response[r], calls[r]>>

\* the state that belongs to run q of query-rag alone
QLocalOf(q) ==
    <<qPc[q], question[q], questionVector[q], similarChunks[q],
      relevantContext[q], result[q], qResponse[q], qCalls[q]>>

\* what holds of the runs and the store in every state: the runs that have
\* stored a document have different documents; every row a run has
\* collected for its batch carries that run's document id; a run that
\* reported success names its own document and reports as chunksProcessed
\* the number of rows the store holds for that document.
IsolatedState ==
    /\ \A r1, r2 \in Runs :
           (r1 # r2 /\ document[r1] # NoDocument /\ document[r2] # NoDocument)
               => document[r1].id # document[r2].id
    /\ \A r \in Runs : \A k \in 1..Len(embeddings[r]) :
           embeddings[r][k].document_id = document[r].id
    /\ \A r \in Runs :
           Succeeded(r) =>
               /\ response[r].documentId = document[r].id
               /\ response[r].chunksProcessed = Len(RowsOf(document[r].id))
               /\ RowsOf(document[r].id) = embeddings[r]

\* what holds of every step: it changes the state of at most one run; a
\* step of a query-rag run writes nothing to the store; and the rows an
\* ingestion run adds to the embeddings carry its own document id.
IsolatedStep ==
    /\ \A r1, r2 \in Runs :
           r1 # r2 => (LocalOf(r1)' = LocalOf(r1) \/ LocalOf(r2)' = LocalOf(r2))
    /\ \A r \in Runs : \A q \in Queries :
           LocalOf(r)' = LocalOf(r) \/ QLocalOf(q)' = QLocalOf(q)
    /\ \A q \in Queries :
           QLocalOf(q)' # QLocalOf(q) =>
               /\ documentsTable' = documentsTable
               /\ embeddingsTable' = embeddingsTable
    /\ \A r \in Runs :
           (CallOk(r, "insertEmbeddings")' /\ ~CallOk(r, "insertEmbeddings")) =>
               /\ Len(embeddingsTable') = Len(embeddingsTable) + Len(embeddings[r])
               /\ \A k \in (Len(embeddingsTable) + 1)..Len(embeddingsTable') :
                      embeddingsTable'[k].document_id = document[r].id
    /\ \A r \in Runs :
           LocalOf(r)' = LocalOf(r) =>
               \A k \in (Len(embeddingsTable) + 1)..Len(embeddingsTable') :
                   embeddingsTable'[k].document_id # document[r].id

\* C22: concurrent runs are isolated.  In every interleaving the runs share
\* nothing but the store: each step changes the state of one run only, the
\* retrieval handler never writes to the store, every embedding row a run
\* writes carries that run's own document id, and the chunksProcessed a run
\* reports is the number of embedding rows it persisted.
C22_Isolation == []IsolatedState /\ [][IsolatedStep]_vars

\* C22 witness: two runs interleaved (the run that stored its document
\* first stored its embeddings last), both successful, each reporting the
\* three rows the store holds for its own document.
C22_Witness ==
    \E r1, r2 \in Runs :
        /\ r1 # r2
        /\ Succeeded(r1) /\ Succeeded(r2)
        /\ document[r1].id < document[r2].id
        /\ Len(embeddingsTable) = 6
        /\ embeddingsTable[1].document_id = document[r2].id
        /\ embeddingsTable[4].document_id = document[r1].id
        /\ response[r1].chunksProcessed = 3
        /\ response[r2].chunksProcessed = 3

\* the entry of the files state created for the file at position k of upList
EntryOf(k) == upFiles[k]

\* the file at position k of upList was accepted by the validation
Accepted(k) == \E j \in 1..Len(upValid) : upValid[j] = k

\* a storage upload (op "upload") or a process-file call (op "invoke") was
\* made for the file at position k
UpCalled(op, k) ==
    \E j \in 1..Len(upCalls) : upCalls[j].op = op /\ upCalls[j].arg = k

UpCallOk(op, k) ==
    \E j \in 1..Len(upCalls) :
        upCalls[j].op = op /\ upCalls[j].arg = k /\ upCalls[j].ok

\* the MIME types of PDF and CSV files (browsers on Windows report CSV files
\* as application/vnd.ms-excel)
PdfOrCsvTypes == {Pdf, TextCsv, MsExcel}

\* C23: a file is accepted only if it is a PDF or CSV file within the size
\* limit; every other file has an entry with status 'error' and a
\* validation message, and is neither uploaded to storage nor sent to
\* process-file.
C23_UploadValidation ==
    upPc # "idle" =>
        \A k \in 1..Len(upList) :
            /\ Accepted(k) =>
                   /\ upList[k].type \in PdfOrCsvTypes
                   /\ upList[k].size <= SizeLimit
            /\ ~Accepted(k) =>
                   /\ EntryOf(k).status = "error"
                   /\ EntryOf(k).error # NoError
                   /\ ~UpCalled("upload", k)
                   /\ ~UpCalled("invoke", k)

\* how far run r has come, as a number that every step of the run raises
Position(r) ==
    CASE pc[r] = "idle" -> 0
      [] pc[r] = "start" -> 0
      [] pc[r] = "download" -> 1
      [] pc[r] = "extract" -> 2
      [] pc[r] = "insertDocument" -> 3
      [] pc[r] = "chunk" -> 4
      [] pc[r] = "apiKey" -> 5
      [] pc[r] = "embed" -> 6 + 2 * idx[r]
      [] pc[r] = "awaitEmbed" -> 7 + 2 * idx[r]
      [] pc[r] = "store" -> 8 + 2 * idx[r]
      [] OTHER -> 9 + 2 * (Len(chunks[r]) + 1)

\* the state of the ingestion state machine run r is in: 0 before the
\* request is read, 1 Received, 2 TextExtracted, 3 Chunked, 4 Embedding,
\* 5 the loop is over (Stored once the insert has succeeded), 6 Complete or
\* Failed
Stage(r) ==
    CASE pc[r] \in {"idle", "start"} -> 0
      [] pc[r] \in {"download", "extract"} -> 1
      [] pc[r] \in {"insertDocument", "chunk"} -> 2
      [] pc[r] = "apiKey" -> 3
      [] pc[r] \in {"embed", "awaitEmbed"} -> 4
      [] pc[r] = "store" -> 5
      [] OTHER -> 6

NonTerminal(r) == pc[r] # "idle" /\ ~Done(r)

\* positions in the call log of run r of the calls named op
CallsAt(r, op) == {k \in 1..Len(calls[r]) : calls[r][k].op = op}

\* the order of the calls of a run: an embedding request comes after the
\* successful document insert, the requests are for chunks 1, 2, ... in
\* turn, and the embeddings insert is the last call, issued after one
\* request per chunk
CallOrder(r) ==
    /\ \A k \in CallsAt(r, "fetchEmbedding") :
           \E j \in CallsAt(r, "insertDocument") : j < k /\ calls[r][j].ok
    /\ \A j, k \in CallsAt(r, "fetchEmbedding") :
           j < k => calls[r][j].arg < calls[r][k].arg
    /\ \A k \in CallsAt(r, "insertEmbeddings") :
           /\ k = Len(calls[r])
           /\ Cardinality(CallsAt(r, "fetchEmbedding")) = Len(chunks[r])
    /\ pc[r] \in {"embed", "awaitEmbed"} => idx[r] \in 1..Len(chunks[r])

\* the order of the steps of a run: a run that has ended takes no step;
\* every step moves the run forward, to the same or the next state of the
\* state machine or, by a failure, to Failed; within Embedding the chunk
\* position never goes back
StepOrder ==
    \A r \in Runs :
        LocalOf(r)' # LocalOf(r) =>
            /\ ~Done(r)
            /\ Position(r)' > Position(r)
            /\ \/ Stage(r)' \in {Stage(r), Stage(r) + 1}
               \/ Done(r)' /\ Failed(r)'
               \/ Done(r)' /\ IsPreflight(response[r])'
            /\ (Stage(r) = 4 /\ Stage(r)' = 4) => idx[r]' >= idx[r]
            /\ Done(r)' => (Failed(r)' \/ Succeeded(r)'
                               \/ IsPreflight(response[r])')
            /\ (Done(r)' /\ Succeeded(r)') => Stage(r) = 5

\* the next step of run r can be a failure
FailNow(r) == ENABLED (IngestStep(r) /\ Done(r)' /\ Failed(r)')

\* the loop is over and nothing was embedded: only the success response is
\* left
NoFailureLeft(r) == pc[r] = "store" /\ embeddings[r] = <<>>

\* C24 as stated: the states are visited in the order Received,
\* TextExtracted, Chunked, Embedding(i/n), Stored, Complete; the document is
\* persisted before any embedding request and the batch insert comes after
\* the last one; no step runs after Complete or Failed; and Failed is
\* reachable from every non-terminal state: in each of them the next step
\* can fail or can lead to another non-terminal state.
C24_StepOrder ==
    /\ [](\A r \in Runs : CallOrder(r))
    /\ [][StepOrder]_vars
    /\ [](\A r \in Runs :
             NonTerminal(r) =>
                 \/ FailNow(r)
                 \/ ENABLED (IngestStep(r) /\ NonTerminal(r)'))

\* C24 amended: the same order, and Failed is reachable from every
\* non-terminal state except the one where the loop has ended without any
\* embedded chunk: in each of the others the next step can fail, or can
\* lead to a later non-terminal state of which the same holds.
C24_StepOrderFailureWhileAwaiting ==
    /\ [](\A r \in Runs : CallOrder(r))
    /\ [][StepOrder]_vars
    /\ [](\A r \in Runs :
             (NonTerminal(r) /\ ~NoFailureLeft(r)) =>
                 \/ FailNow(r)
                 \/ ENABLED (/\ IngestStep(r)
                             /\ NonTerminal(r)'
                             /\ ~NoFailureLeft(r)'
                             /\ Position(r)' > Position(r)))
    /\ [](\A r \in Runs : NoFailureLeft(r) => ~FailNow(r))

\* C24 witness: one run is Complete after three embedding requests, the
\* other has left the loop with nothing embedded and can only complete.
C24_Witness ==
    \E r1, r2 \in Runs :
        /\ Succeeded(r1)
        /\ response[r1].chunksProcessed = 3
        /\ Cardinality(CallsAt(r1, "fetchEmbedding")) = 3
        /\ NoFailureLeft(r2)
        /\ Cardinality(CallsAt(r2, "fetchEmbedding")) = 3

\* run r inserted the document with this id, and did so before it inserted
\* its embeddings
InsertedEarlierBy(r, id) ==
    /\ document[r].id = id
    /\ \E j \in CallsAt(r, "insertDocument"), k \in CallsAt(r, "insertEmbeddings") :
           j < k /\ calls[r][j].ok /\ calls[r][k].ok

\* C25: referential integrity.  In every reachable state, whatever runs
\* have succeeded, partially succeeded or failed, every stored embedding row
\* references exactly one stored document row, and that document was
\* inserted earlier by the run that stored the embedding row.
C25_ReferentialIntegrity ==
    \A k \in 1..Len(embeddingsTable) :
        /\ Cardinality({j \in 1..Len(documentsTable) :
               documentsTable[j].id = embeddingsTable[k].document_id}) = 1
        /\ \E r \in Runs : InsertedEarlierBy(r, embeddingsTable[k].document_id)

\* C25 witness: a partially successful run stored two rows for its three
\* chunks, and the batch insert of the other run failed, which leaves its
\* document without rows.
C25_Witness ==
    \E r1, r2 \in Runs :
        /\ r1 # r2
        /\ Succeeded(r1) /\ Len(RowsOf(document[r1].id)) = 2
        /\ Len(chunks[r1]) = 3
        /\ Failed(r2) /\ CallFailed(r2, "insertEmbeddings")
        /\ Len(RowsOf(document[r2].id)) = 0
        /\ Len(documentsTable) = 2
        /\ Len(embeddingsTable) = 2

\* the embedding loop of run r is over and no chunk was embedded
NothingEmbedded(r) ==
    /\ pc[r] \in {"store", "done"}
    /\ Len(chunks[r]) > 0
    /\ Len(EmbedCalls(r)) = Len(chunks[r])
    /\ \A k \in 1..Len(EmbedCalls(r)) : ~EmbedCalls(r)[k].ok

\* C26: a run in which no chunk was embedded (every embedding call failed or
\* carried no vector) issues no embeddings insert, keeps its document row
\* and stores no embedding row for it, and ends with the success response
\* and chunksProcessed = 0.
C26_ZeroEmbeddedChunks ==
    \A r \in Runs :
        NothingEmbedded(r) =>
            /\ CallsAt(r, "insertEmbeddings") = {}
            /\ \E j \in 1..Len(documentsTable) : documentsTable[j] = document[r]
            /\ RowsOf(document[r].id) = <<>>
            /\ Done(r) =>
                   /\ IsIngestSuccess(response[r])
                   /\ response[r].documentId = document[r].id
                   /\ response[r].chunksProcessed = 0

\* C26 witness: all three embedding calls of a run failed and the run
\* answered success with chunksProcessed = 0; its document is stored.
C26_Witness ==
    \E r \in Runs :
        /\ Done(r)
        /\ Len(chunks[r]) = 3
        /\ NothingEmbedded(r)
        /\ response[r].chunksProcessed = 0
        /\ Len(documentsTable) = 1

\* the status the entry of the file at position k has after the calls made
\* for that file so far
OwnStatus(k) ==
    IF ~Accepted(k) THEN "error"
    ELSE IF UpCallOk("invoke", k) THEN "completed"
    ELSE IF UpCalled("invoke", k) \/ (UpCalled("upload", k) /\ ~UpCallOk("upload", k))
         THEN "error"
    ELSE IF UpCallOk("upload", k) THEN "processing"
    ELSE "uploading"

\* C27: every status change made for a valid file is applied to the entry
\* created for that file and to no other entry, also when another file of
\* the batch has the same name: each entry shows the status of its own
\* file; an entry that failed validation keeps status 'error'; and an entry
\* is 'completed' only if the upload and the process-file call of its own
\* file both succeeded, with progress 100.
C27_EntryTracking ==
    upPc # "idle" =>
        \A k \in 1..Len(upList) :
            /\ EntryOf(k).status = OwnStatus(k)
            /\ ~Accepted(k) => EntryOf(k).status = "error"
            /\ EntryOf(k).status = "completed" =>
                   /\ UpCallOk("upload", k)
                   /\ UpCallOk("invoke", k)
                   /\ EntryOf(k).progress = 100

\* the messages of the chat with the given role, the greeting left out
ChatCount(role) ==
    Cardinality({k \in 2..Len(chMessages) : chMessages[k].role = role})

\* what holds of the chat in every state: at most one call of onSendMessage
\* is in flight, and one is exactly while isLoading; after the greeting the
\* messages alternate user, assistant; every user message has had its one
\* assistant message except the one whose call is in flight; no user message
\* is empty.
SingleFlightState ==
    /\ chPending \in {0, 1}
    /\ chLoading <=> chPending = 1
    /\ ChatCount("user") = ChatCount("assistant") + chPending
    /\ \A k \in 2..Len(chMessages) :
           /\ chMessages[k].role = (IF k % 2 = 0 THEN "user" ELSE "assistant")
           /\ chMessages[k].role = "user" =>
                  /\ Len(chMessages[k].content) > 0
                  /\ Trim(chMessages[k].content) = chMessages[k].content
           /\ chMessages[k].role = "assistant" =>
                  chMessages[k].content \in ChatResponses \cup {ChatError}

\* what holds of every step: while isLoading, or with an input that is
\* empty when trimmed, nothing is sent; a step appends at most one message
\* and removes none; an accepted send appends the trimmed input as the user
\* message and starts one call; an assistant message ends the loading.
SingleFlightStep ==
    /\ Len(chMessages') \in {Len(chMessages), Len(chMessages) + 1}
    /\ \A k \in 1..Len(chMessages) : chMessages'[k] = chMessages[k]
    /\ (chLoading \/ Len(Trim(chInput)) = 0) =>
           /\ ChatCount("user")' = ChatCount("user")
           /\ chPending' <= chPending
    /\ ChatCount("user")' = ChatCount("user") + 1 =>
           /\ chMessages'[Len(chMessages')].content = Trim(chInput)
           /\ chPending' = chPending + 1
           /\ chLoading'
    /\ ChatCount("assistant")' = ChatCount("assistant") + 1 =>
           /\ chLoading /\ ~chLoading'
           /\ chPending' = chPending - 1

\* C28: single flight.  handleSend does nothing while isLoading or when the
\* trimmed input is empty, so at most one request is in flight; every
\* accepted send appends exactly one user message and is eventually followed
\* by exactly one assistant message (the response, or the fixed error
\* message), after which isLoading is false again.
C28_SingleFlight ==
    /\ []SingleFlightState
    /\ [][SingleFlightStep]_vars
    /\ \A n \in 1..MaxSends :
           (ChatCount("user") = n) ~>
               (ChatCount("assistant") = n /\ ~chLoading /\ chPending = 0)

\* C28 witness: two messages were sent, typed with blanks around them; the
\* first was answered by the response, the second by the error message, and
\* isLoading is false.
C28_Witness ==
    /\ Len(chMessages) = 5
    /\ chMessages[2] = [role |-> "user", content |-> <<"a">>]
    /\ chMessages[3] = [role |-> "assistant", content |-> "reply"]
    /\ chMessages[4].role = "user"
    /\ chMessages[5] = [role |-> "assistant", content |-> ChatError]
    /\ ~chLoading

\* C29: the connection test never sticks.  In every reachable state, also
\* after Save Configuration and a remount that reloads the saved config, a
\* connectionStatus of 'connecting' is eventually followed by another status
\* ('connected'), so that the Test Database Connection button, disabled
\* while 'connecting', is enabled again.
C29_ConnectingEnds ==
    (cfConfig.connectionStatus = "connecting") ~>
        (cfConfig.connectionStatus # "connecting")

IsEmbeddingTraffic(c) == c.op \in {"fetchEmbedding", "embed"}

\* the embedding requests of run r and their outcomes, in order
EmbeddingTraffic(r) == SelectSeq(calls[r], IsEmbeddingTraffic)

\* run r has left the embedding loop
PastLoop(r) ==
    \/ pc[r] = "store"
    \/ Done(r) /\ Len(EmbeddingTraffic(r)) > 0

\* C19: the embedding traffic of a run is request 1, outcome 1, request 2,
\* outcome 2, ...: one request per chunk whether it succeeds or fails, in
\* chunk order, each issued only after the outcome of the one before; a
\* request is in flight exactly while the handler awaits it; and a run that
\* has left the loop has issued exactly one request per chunk.
C19_OneRequestPerChunk ==
    \A r \in Runs :
        LET t == EmbeddingTraffic(r)
        IN  /\ \A k \in 1..Len(t) :
                   /\ t[k].arg = (k + 1) \div 2
                   /\ t[k].op = IF k % 2 = 1 THEN "fetchEmbedding" ELSE "embed"
            /\ (Len(t) % 2 = 1) <=> (pc[r] = "awaitEmbed")
            /\ Len(t) <= 2 * Len(chunks[r])
            /\ PastLoop(r) => Len(t) = 2 * Len(chunks[r])

\* C19 witness: a finished run over three chunks whose second embedding
\* call failed.
C19_Witness ==
    \E r \in Runs :
        /\ Done(r)
        /\ Len(chunks[r]) = 3
        /\ Len(EmbeddingTraffic(r)) = 6
        /\ ~EmbedCalls(r)[2].ok
        /\ EmbedCalls(r)[1].ok /\ EmbedCalls(r)[3].ok

\* the rows a table held are still there, unchanged, at the same positions
Kept(table, table2) ==
    /\ Len(table2) >= Len(table)
    /\ \A k \in 1..Len(table) : table2[k] = table[k]

\* C20: nothing is deduplicated and nothing stored is modified.  Every step
\* keeps all rows of both tables as they are; a document insert that
\* succeeds adds one new row whose id differs from every row stored before,
\* whatever {fileName, fileUrl, fileType} those rows carry; and the
\* embedding rows a run adds all reference that run's own document.
C20_NoDeduplication ==
    [][ /\ Kept(documentsTable, documentsTable')
        /\ Kept(embeddingsTable, embeddingsTable')
        /\ \A r \in Runs :
               (CallOk(r, "insertDocument")' /\ ~CallOk(r, "insertDocument")) =>
                   /\ Len(documentsTable') = Len(documentsTable) + 1
                   /\ documentsTable'[Len(documentsTable')] = document'[r]
                   /\ \A k \in 1..Len(documentsTable) :
                          documentsTable[k].id # document'[r].id
        /\ \A r \in Runs :
               (CallOk(r, "insertEmbeddings")' /\ ~CallOk(r, "insertEmbeddings")) =>
                   /\ Len(embeddingsTable') =
                          Len(embeddingsTable) + Len(embeddings[r])
                   /\ \A k \in (Len(embeddingsTable) + 1)..Len(embeddingsTable') :
                          embeddingsTable'[k].document_id = document[r].id
      ]_vars

\* C20 witness: the same request ingested twice, both runs successful, two
\* documents with different ids and three embedding rows each.
C20_Witness ==
    \E r1, r2 \in Runs :
        /\ r1 # r2
        /\ req[r1] = req[r2]
        /\ req[r1].fileUrl = "u-doc"
        /\ Succeeded(r1) /\ Succeeded(r2)
        /\ document[r1].id # document[r2].id
        /\ Len(RowsOf(document[r1].id)) = 3
        /\ Len(RowsOf(document[r2].id)) = 3
        /\ Len(documentsTable) = 2

====
